---- MODULE Spec2Model ----
(***************************************************************************)
(* Model of the admin dashboard's review deletion (handleDeleteReview in   *)
(* AdminDashboardClient.tsx) over the record store accessed through        *)
(* databaseService (lib/firebase/database.ts).                             *)
(*                                                                         *)
(* Ratings are JavaScript numbers.  A rating with one decimal digit is     *)
(* held in the model as an integer number of tenths (4.3 is 43); the       *)
(* arithmetic of handleDeleteReview is carried out on the binary64 value   *)
(* of that decimal, with the IEEE-754 rounding of every operation, so      *)
(* that Number.prototype.toFixed sees the double the program computes.     *)
(***************************************************************************)
EXTENDS Integers, Sequences, FiniteSets, TLC

(***************************************************************************)
(* binary64 arithmetic.  The magnitude of a double is a fixed-point        *)
(* number: NumLimbs limbs of LimbBits bits, least significant first, the   *)
(* last limb being the integer part and the others the fraction.  Every    *)
(* operation computes the exact result and rounds it to SignificandBits    *)
(* significant bits, ties to even, as IEEE-754 does.                       *)
(***************************************************************************)
LimbBits == 24
LimbBase == 16777216
NumLimbs == 6
SignificandBits == 53

Limbs == 1..NumLimbs

Max(a, b) == IF a >= b THEN a ELSE b

Abs(n) == IF n < 0 THEN 0 - n ELSE n

ZeroMag == [i \in Limbs |-> 0]

MagOfInt(n) == [ZeroMag EXCEPT ![NumLimbs] = n]

\* exact product of a magnitude and a small natural number
MagMul(M, c) ==
  LET t[i \in 0..NumLimbs] ==
        IF i = 0 THEN 0 ELSE M[i] * c + (t[i - 1] \div LimbBase)
  IN  [i \in Limbs |-> t[i] % LimbBase]

\* quotient of a magnitude by a small positive number, truncated to the
\* last fraction bit; inexact tells whether a remainder was dropped
MagDiv(M, q) ==
  LET cur[i \in 1..(NumLimbs + 1)] ==
        IF i = NumLimbs + 1 THEN 0
        ELSE (cur[i + 1] % q) * LimbBase + M[i]
  IN  [mag |-> [i \in Limbs |-> cur[i] \div q], inexact |-> (cur[1] % q) # 0]

BitLen(M) ==
  IF M = ZeroMag THEN 0
  ELSE LET top == CHOOSE i \in Limbs :
                    M[i] # 0 /\ \A j \in Limbs : j > i => M[j] = 0
           len == CHOOSE k \in 1..LimbBits :
                    2^(k - 1) <= M[top] /\ M[top] < 2^k
       IN  LimbBits * (top - 1) + len

MagBit(M, k) == (M[(k \div LimbBits) + 1] \div 2^(k % LimbBits)) % 2

\* some bit below bit k is set
MagLowBits(M, k) ==
  \E i \in Limbs :
     \/ i < (k \div LimbBits) + 1 /\ M[i] # 0
     \/ i = (k \div LimbBits) + 1 /\ M[i] % 2^(k % LimbBits) # 0

\* M with the bits below bit k cleared
MagTrunc(M, k) ==
  [i \in Limbs |->
     IF i < (k \div LimbBits) + 1 THEN 0
     ELSE IF i = (k \div LimbBits) + 1 THEN M[i] - (M[i] % 2^(k % LimbBits))
     ELSE M[i]]

\* M + 2^k
MagAddBit(M, k) ==
  LET j == (k \div LimbBits) + 1
      t[i \in 0..NumLimbs] ==
        IF i < j THEN 0
        ELSE IF i = j THEN M[i] + 2^(k % LimbBits)
        ELSE M[i] + (t[i - 1] \div LimbBase)
  IN  [i \in Limbs |-> IF i < j THEN M[i] ELSE t[i] % LimbBase]

\* round an exact result to the nearest double, ties to even
RoundNearestEven(M, inexact) ==
  LET s == BitLen(M) - SignificandBits
  IN  IF s <= 0 THEN M
      ELSE LET half == MagBit(M, s - 1) = 1
               rest == MagLowBits(M, s - 1) \/ inexact
               odd  == MagBit(M, s) = 1
           IN  IF half /\ (rest \/ odd) THEN MagAddBit(MagTrunc(M, s), s)
               ELSE MagTrunc(M, s)

\* the double nearest to the decimal t/10 (a parsed JSON number, or
\* parseFloat of a toFixed(1) string)
DoubleOfTenths(t) ==
  LET q == MagDiv(MagOfInt(Abs(t)), 10)
  IN  [neg |-> t < 0, mag |-> RoundNearestEven(q.mag, q.inexact)]

\* x * c for a natural number c
DoubleTimes(x, c) ==
  [neg |-> x.neg, mag |-> RoundNearestEven(MagMul(x.mag, c), FALSE)]

\* x - n for a natural number n
DoubleMinus(x, n) ==
  LET fracZero == \A i \in Limbs : i < NumLimbs => x.mag[i] = 0
      compl == [i \in Limbs |->
                  IF i < NumLimbs THEN (LimbBase - 1) - x.mag[i]
                  ELSE (n - x.mag[NumLimbs]) - 1]
  IN  IF x.neg
        THEN [neg |-> TRUE,
              mag |-> RoundNearestEven(
                        [x.mag EXCEPT ![NumLimbs] = @ + n], FALSE)]
      ELSE IF x.mag[NumLimbs] >= n
        THEN [neg |-> FALSE, mag |-> [x.mag EXCEPT ![NumLimbs] = @ - n]]
      ELSE IF fracZero
        THEN [neg |-> TRUE, mag |-> MagOfInt(n - x.mag[NumLimbs])]
      ELSE [neg |-> TRUE, mag |-> RoundNearestEven(MagAddBit(compl, 0), FALSE)]

\* x / q for a positive natural number q
DoubleOver(x, q) ==
  LET d == MagDiv(x.mag, q)
  IN  [neg |-> x.neg, mag |-> RoundNearestEven(d.mag, d.inexact)]

\* parseFloat(x.toFixed(1)), in tenths: the integer n with n/10 nearest to
\* the exact value of |x|, the larger n on a tie, with the sign of x
ToFixed1(x) ==
  LET m10 == MagMul(x.mag, 10)
      n   == m10[NumLimbs]
               + (IF m10[NumLimbs - 1] >= LimbBase \div 2 THEN 1 ELSE 0)
  IN  IF x.neg THEN 0 - n ELSE n

\* newReviewCount computed as Math.max(1, review_count - 1)
NewReviewCountFloorOne(review_count) == Max(1, review_count - 1)

\* newReviewCount computed without Math.max
NewReviewCountUnclamped(review_count) == review_count - 1

\* newReviewCount of handleDeleteReview
NewReviewCount(review_count) == Max(0, review_count - 1)

\* newRating of handleDeleteReview, in tenths
NewRating(rating, review_count, deleted) ==
  LET newReviewCount == NewReviewCount(review_count)
      oldTotalRating == DoubleTimes(DoubleOfTenths(rating), review_count)
      newTotalRating == DoubleMinus(oldTotalRating, deleted)
  IN  IF newReviewCount > 0
        THEN ToFixed1(DoubleOver(newTotalRating, newReviewCount))
        ELSE 0


(***************************************************************************)
(* The record store and the dashboard state.                               *)
(***************************************************************************)
NumReviews == 3

KeyOrder == <<"p1", "p2">>
ProductKeys == {KeyOrder[i] : i \in 1..Len(KeyOrder)}

ReviewKeyOrder == <<"r1", "r2", "r3", "r4", "r5">>
ReviewIds == {ReviewKeyOrder[i] : i \in 1..NumReviews}

\* an id that no review record ever had
UnknownId == "r0"

Sessions == {"a", "b"}
MaxCalls == 2
CallIds == 1..MaxCalls

\* learning_hub/cards/{uuid} and learning_hub/user_saved_cards/{userId}
NumCards == 2
CardKeyOrder == <<"c1", "c2", "c3", "c4">>
CardKeys == {CardKeyOrder[i] : i \in 1..NumCards}
NumUsers == 3
UserOrder == <<"u1", "u2", "u3", "u4", "u5">>
Users == {UserOrder[i] : i \in 1..NumUsers}

\* the keys push() generates, in the order it generates them; no key is
\* generated twice and none equals a key that was ever stored
MaxPush == 2
PushKeyOrder == <<"-n1", "-n2", "-n3", "-n4">>

ReviewNotFound == "Review not found"
ProductNotFoundForReview == "Product not found for this review"
ProductIdNotFound == "Product with ID not found"
StoreUnavailable == "Store unavailable"

VARIABLES
  dbProducts,   \* shoppingItems/{id}: key -> product record
  dbReviews,    \* reviews/{id}: key -> review record
  products,     \* per session: the products state of AdminDashboardClient
  reviews,      \* per session: the reviews state of AdminDashboardClient
  stats,        \* per session: the stats state of AdminDashboardClient
  calls,        \* the invocations of handleDeleteReview and their position
  now,          \* the clock: the time the last completed deletion ended
  dbCards,      \* learning_hub/cards/{uuid}: key -> card record
  dbSaved,      \* learning_hub/user_saved_cards: <<userId, uuid>> -> flag
  pushed,       \* the number of keys push() has generated
  op,           \* the call of a databaseService method and its position
  bulk,         \* the invocation of handleBulkDelete and its position
  blobs,        \* the objects of blob storage: the set of their paths
  modal,        \* the state of ProductEditModal and the position of its save
  rival         \* a second databaseService call running beside op

\* the state the handlers of the reviews tab leave alone
repoVars == <<dbCards, dbSaved, pushed, op, bulk, blobs, modal, rival>>

\* the state of the product edit flow and of the second call
editVars == <<blobs, modal, rival>>

vars == <<dbProducts, dbReviews, products, reviews, stats, calls, now,
          dbCards, dbSaved, pushed, op, bulk, blobs, modal, rival>>

\* {...a, ...b}
Merge(a, b) ==
  [f \in (DOMAIN a) \cup (DOMAIN b) |-> IF f \in DOMAIN b THEN b[f] ELSE a[f]]

IndexIn(order, k) == CHOOSE i \in 1..Len(order) : order[i] = k

\* Object.keys(data) sorted with (a, b) => b.createdAt - a.createdAt; the
\* sort is stable, so records with equal createdAt stay in key order
\* record.createdAt || 0
CreatedAtOrZero(record) ==
  IF "createdAt" \in DOMAIN record THEN record.createdAt ELSE 0

RECURSIVE SortByCreatedAtDesc(_, _, _)
SortByCreatedAtDesc(keys, data, order) ==
  IF keys = {} THEN <<>>
  ELSE LET first == CHOOSE k \in keys : \A j \in keys :
                       \/ CreatedAtOrZero(data[k]) > CreatedAtOrZero(data[j])
                       \/ /\ CreatedAtOrZero(data[k])
                               = CreatedAtOrZero(data[j])
                          /\ IndexIn(order, k) <= IndexIn(order, j)
       IN  <<first>> \o SortByCreatedAtDesc(keys \ {first}, data, order)

\* databaseService.getProducts
GetProducts(db) ==
  LET sorted == SortByCreatedAtDesc(DOMAIN db, db, KeyOrder)
  IN  [i \in 1..Len(sorted) |-> Merge([id |-> sorted[i]], db[sorted[i]])]

\* databaseService.getReviews
GetReviews(db) ==
  LET sorted == SortByCreatedAtDesc(DOMAIN db, db,
                                    <<UnknownId>> \o ReviewKeyOrder)
  IN  [i \in 1..Len(sorted) |->
         Merge([id |-> sorted[i], reviewId |-> sorted[i]], db[sorted[i]])]

\* the stats computed by AdminDashboardPage from the loaded lists
\* (avgRating and totalLearningCards are copied unchanged by every handler
\* modelled here)
LoadedStats(prods, revs) ==
  [totalProducts |-> Len(prods), totalReviews |-> Len(revs)]

\* Array.prototype.find: the first element of seq among the positions hits
\* that satisfy the predicate, as a sequence of length at most one
FirstMatch(seq, hits) ==
  IF hits = {} THEN <<>>
  ELSE <<seq[CHOOSE i \in hits : \A j \in hits : i <= j]>>

\* a lookup that falls back to the first review of the list
FindReviewOrFirst(revs, id) ==
  LET hits == {i \in 1..Len(revs) : revs[i].id = id}
  IN  IF hits = {} /\ revs # <<>> THEN <<revs[1]>>
      ELSE FirstMatch(revs, hits)

\* reviews.find((r) => r.id === id)
FindReview(revs, id) ==
  FirstMatch(revs, {i \in 1..Len(revs) : revs[i].id = id})

\* a lookup that compares the itemId field only
FindProductByItemIdOnly(prods, itemId) ==
  FirstMatch(prods, {i \in 1..Len(prods) : prods[i].itemId = itemId})

\* a lookup that falls back to the first product of the list
FindProductOrFirst(prods, itemId) ==
  LET hits == {i \in 1..Len(prods) :
                 prods[i].itemId = itemId \/ prods[i].id = itemId}
  IN  IF hits = {} /\ prods # <<>> THEN <<prods[1]>>
      ELSE FirstMatch(prods, hits)

\* products.find((p) => p.itemId === itemId || p.id === itemId)
FindProduct(prods, itemId) ==
  FirstMatch(prods, {i \in 1..Len(prods) :
                       prods[i].itemId = itemId \/ prods[i].id = itemId})

\* a remove that reaches no record
RemoveNothing(db, key) == db

\* remove(ref(db, path)): removing a path that holds nothing succeeds
Remove(db, key) == [k \in (DOMAIN db) \ {key} |-> db[k]]

\* an update that writes nothing
UpdateNothing(db, key, values) == db

\* update(ref(db, path), values): writes the listed children of the path
\* and leaves its other children alone
Update(db, key, values) ==
  [k \in (DOMAIN db) \cup {key} |->
     IF k = key
       THEN IF key \in DOMAIN db THEN Merge(db[key], values) ELSE values
       ELSE db[k]]

IdleCall ==
  [pc |-> "idle", session |-> "a", id |-> UnknownId,
   reviewToDelete |-> <<>>, product |-> <<>>,
   newReviewCount |-> 0, newRating |-> 0,
   data |-> <<>>, updatedData |-> <<>>, error |-> "", failedAt |-> ""]

InFlight == {"deleteReview", "updateProduct.get", "updateProduct.update"}

NoCallInFlight == \A c \in CallIds : calls[c].pc \notin InFlight


(***************************************************************************)
(* handleDeleteReview.  Its synchronous prefix runs in one step; each      *)
(* await of a store operation is a step of its own.  The three readings of *)
(* Date.now() of a deletion (line 128, database.ts line 67, line 140) are  *)
(* taken one store round trip after the other, so each is later than the   *)
(* one before, and the clock has moved past them when the deletion ends.   *)
(***************************************************************************)

\* lines 92-122: look the review and its product up in the session's state,
\* compute the new aggregate and issue deleteReview
HandleDeleteReview(c, s, id) ==
  LET reviewToDelete == FindReview(reviews[s], id)
      product ==
        IF reviewToDelete = <<>> THEN <<>>
        ELSE FindProduct(products[s], reviewToDelete[1].itemId)
      started == [IdleCall EXCEPT !.session = s, !.id = id,
                                  !.reviewToDelete = reviewToDelete,
                                  !.product = product]
  IN  /\ calls' =
           [calls EXCEPT ![c] =
              IF reviewToDelete = <<>>
                THEN [started EXCEPT !.pc = "rejected",
                                     !.error = ReviewNotFound]
              ELSE IF product = <<>>
                THEN [started EXCEPT !.pc = "rejected",
                                     !.error = ProductNotFoundForReview]
              ELSE [started EXCEPT
                      !.pc = "deleteReview",
                      !.newReviewCount =
                         NewReviewCount(product[1].review_count),
                      !.newRating =
                         NewRating(product[1].rating,
                                   product[1].review_count,
                                   reviewToDelete[1].rating)]]
     /\ UNCHANGED <<dbProducts, dbReviews, products, reviews, stats, now,
                    repoVars>>

\* a click on the delete button of a review row, or a call with any id,
\* while no other deletion of the session is in progress
DeleteReviewClicked(s) ==
  /\ NoCallInFlight
  /\ \E id \in ReviewIds \cup {UnknownId} : HandleDeleteReview(1, s, id)

\* deleteReview completed and the review leaves the session's state at once,
\* before the product is written
DeleteReviewDoneOptimistic(c) ==
  /\ calls[c].pc = "deleteReview"
  /\ dbReviews' = Remove(dbReviews, calls[c].id)
  /\ reviews' = [reviews EXCEPT ![calls[c].session] =
                    SelectSeq(@, LAMBDA r : r.id # calls[c].id)]
  /\ calls' = [calls EXCEPT ![c].pc = "updateProduct.get",
                            ![c].data =
                               <<[review_count |-> calls[c].newReviewCount,
                                  rating |-> calls[c].newRating,
                                  updatedAt |-> now]>>]
  /\ UNCHANGED <<dbProducts, products, stats, now, repoVars>>

\* lines 122-129: databaseService.deleteReview completed; updateProduct is
\* called with the new aggregate and issues its get
DeleteReviewDone(c) ==
  /\ calls[c].pc = "deleteReview"
  /\ dbReviews' = Remove(dbReviews, calls[c].id)
  /\ calls' = [calls EXCEPT ![c].pc = "updateProduct.get",
                            ![c].data =
                               <<[review_count |-> calls[c].newReviewCount,
                                  rating |-> calls[c].newRating,
                                  updatedAt |-> now]>>]
  /\ UNCHANGED <<dbProducts, products, reviews, stats, now, repoVars>>

\* database.ts lines 57-70: the get of updateProduct completed; the record
\* read is merged with the caller's fields and the update is issued
UpdateProductGet(c) ==
  LET id == calls[c].product[1].id
  IN  /\ calls[c].pc = "updateProduct.get"
      /\ calls' =
           [calls EXCEPT ![c] =
              IF id \notin DOMAIN dbProducts
                THEN [@ EXCEPT !.pc = "rejected",
                               !.error = ProductIdNotFound,
                               !.failedAt = "updateProduct.get"]
                ELSE [@ EXCEPT !.pc = "updateProduct.update",
                               !.updatedData =
                                  <<Merge(Merge(dbProducts[id],
                                                calls[c].data[1]),
                                          [updatedAt |-> now + 1])>>]]
      /\ UNCHANGED <<dbProducts, dbReviews, products, reviews, stats, now,
                     repoVars>>

\* setProducts of lines 133-144
SetProducts(prods, id, newReviewCount, newRating, time) ==
  [i \in 1..Len(prods) |->
     IF prods[i].id = id
       THEN Merge(prods[i], [review_count |-> newReviewCount,
                             rating |-> newRating,
                             updatedAt |-> time])
       ELSE prods[i]]

\* setReviews of line 132
SetReviews(revs, id) == SelectSeq(revs, LAMBDA r : r.id # id)

\* setStats of lines 147-151
SetStats(st) == [st EXCEPT !.totalReviews = @ - 1]

\* database.ts line 70 and lines 131-151: the update of updateProduct
\* completed; the session's state is brought up to date
UpdateProductDone(c) ==
  LET s  == calls[c].session
      id == calls[c].product[1].id
  IN  /\ calls[c].pc = "updateProduct.update"
      /\ dbProducts' = Update(dbProducts, id, calls[c].updatedData[1])
      /\ reviews' = [reviews EXCEPT ![s] = SetReviews(@, calls[c].id)]
      /\ products' =
           [products EXCEPT ![s] =
              SetProducts(@, id, calls[c].newReviewCount,
                          calls[c].newRating, now + 2)]
      /\ stats' = [stats EXCEPT ![s] = SetStats(@)]
      /\ calls' = [calls EXCEPT ![c].pc = "fulfilled"]
      /\ now' = now + 3
      /\ UNCHANGED <<dbReviews, repoVars>>

\* a failure of the product update that reaches the session after its
\* state was already brought up to date
StoreFailsStateUpdated(c) ==
  /\ calls[c].pc \in InFlight
  /\ calls' = [calls EXCEPT ![c].pc = "rejected",
                            ![c].error = StoreUnavailable,
                            ![c].failedAt = calls[c].pc]
  /\ products' =
       IF calls[c].pc = "deleteReview" THEN products
       ELSE [products EXCEPT ![calls[c].session] =
               SetProducts(@, calls[c].product[1].id,
                           calls[c].newReviewCount, calls[c].newRating,
                           now)]
  /\ UNCHANGED <<dbProducts, dbReviews, reviews, stats, now, repoVars>>

\* the store operation a call is waiting for fails: the error reaches the
\* catch of lines 154-157 and is thrown again
StoreFails(c) ==
  /\ calls[c].pc \in InFlight
  /\ calls' = [calls EXCEPT ![c].pc = "rejected",
                            ![c].error = StoreUnavailable,
                            ![c].failedAt = calls[c].pc]
  /\ UNCHANGED <<dbProducts, dbReviews, products, reviews, stats, now,
                 repoVars>>

Next ==
  \/ DeleteReviewClicked("a")
  \/ \E c \in CallIds : DeleteReviewDone(c)
  \/ \E c \in CallIds : UpdateProductGet(c)
  \/ \E c \in CallIds : UpdateProductDone(c)
  \/ \E c \in CallIds : StoreFails(c)


(***************************************************************************)
(* handleBulkDelete of AdminReviewsTable.  selectedReviews.map(onDelete)   *)
(* calls handleDeleteReview for every selected id before any of the calls  *)
(* reaches its first await, so every call looks its review and product up  *)
(* in the same reviews and products state; Promise.all then waits for the  *)
(* calls, whose store operations complete in any order.                    *)
(***************************************************************************)
BulkDeleteFailed == "Failed to delete some reviews"
BulkDeleteSucceeded == "reviews deleted successfully!"

IdleBulk ==
  [pc |-> "idle", selected |-> {}, count |-> 0, alert |-> "",
   logged |-> "", success |-> ""]

RECURSIVE InKeyOrder(_, _)
\* the members of ids in the order of the sequence order
InKeyOrder(ids, order) ==
  IF order = <<>> THEN <<>>
  ELSE IF Head(order) \in ids
    THEN <<Head(order)>> \o InKeyOrder(ids, Tail(order))
    ELSE InKeyOrder(ids, Tail(order))

\* lines 92-122 as a function of the state the call reads: the call record
\* after the synchronous part of handleDeleteReview
StartedCall(s, id, revs, prods) ==
  LET reviewToDelete == FindReview(revs, id)
      product ==
        IF reviewToDelete = <<>> THEN <<>>
        ELSE FindProduct(prods, reviewToDelete[1].itemId)
      started == [IdleCall EXCEPT !.session = s, !.id = id,
                                  !.reviewToDelete = reviewToDelete,
                                  !.product = product]
  IN  IF reviewToDelete = <<>>
        THEN [started EXCEPT !.pc = "rejected", !.error = ReviewNotFound]
      ELSE IF product = <<>>
        THEN [started EXCEPT !.pc = "rejected",
                             !.error = ProductNotFoundForReview]
      ELSE [started EXCEPT
              !.pc = "deleteReview",
              !.newReviewCount = NewReviewCount(product[1].review_count),
              !.newRating = NewRating(product[1].rating,
                                      product[1].review_count,
                                      reviewToDelete[1].rating)]

\* lines 266-271: the admin confirmed the deletion of the selected reviews;
\* onDelete is called for each of them.  The selection may hold ids of
\* reviews that a single deletion removed since they were selected.
HandleBulkDelete(selected) ==
  LET ids == InKeyOrder(selected, ReviewKeyOrder)
  IN  /\ selected # {}
      /\ Cardinality(selected) <= MaxCalls
      /\ NoCallInFlight
      /\ bulk.pc # "awaiting"
      /\ calls' = [c \in CallIds |->
                     IF c <= Len(ids)
                       THEN StartedCall("a", ids[c], reviews["a"],
                                        products["a"])
                       ELSE IdleCall]
      /\ bulk' = [IdleBulk EXCEPT !.pc = "awaiting", !.selected = selected,
                                  !.count = Cardinality(selected)]
      /\ UNCHANGED <<dbProducts, dbReviews, products, reviews, stats, now,
                     dbCards, dbSaved, pushed, op, editVars>>

BulkDeleteClicked ==
  \E selected \in SUBSET ReviewIds : HandleBulkDelete(selected)

\* the calls of the bulk deletion in progress
BulkCalls == {c \in CallIds : c <= bulk.count}

\* lines 271-277: Promise.all settled.  It is fulfilled once every call is
\* fulfilled, and rejected with the error of the first call that is
\* rejected, while the other calls go on.
BulkSettled ==
  /\ bulk.pc = "awaiting"
  /\ \/ /\ \A c \in BulkCalls : calls[c].pc = "fulfilled"
        /\ bulk' = [bulk EXCEPT !.pc = "succeeded", !.selected = {},
                                !.success = BulkDeleteSucceeded]
     \/ \E c \in BulkCalls :
           /\ calls[c].pc = "rejected"
           /\ bulk' = [bulk EXCEPT !.pc = "failed",
                                   !.logged = calls[c].error,
                                   !.alert = BulkDeleteFailed]
  /\ UNCHANGED <<dbProducts, dbReviews, products, reviews, stats, calls,
                 now, dbCards, dbSaved, pushed, op, editVars>>

NextBulk ==
  \/ BulkDeleteClicked
  \/ BulkSettled
  \/ \E c \in CallIds : DeleteReviewDone(c)
  \/ \E c \in CallIds : UpdateProductGet(c)
  \/ \E c \in CallIds : UpdateProductDone(c)
  \/ \E c \in CallIds : StoreFails(c)

(***************************************************************************)
(* Two admin sessions, each with its own AdminDashboardClient state loaded *)
(* from the same store.  Session "a" uses call 1, session "b" call 2.      *)
(***************************************************************************)
CallOf(s) == IF s = "a" THEN 1 ELSE 2

\* the first deletion of a review in session s
SessionDeletesReview(s) ==
  /\ calls[CallOf(s)].pc = "idle"
  /\ \E id \in ReviewIds : HandleDeleteReview(CallOf(s), s, id)

NextSessions ==
  \/ \E s \in Sessions : SessionDeletesReview(s)
  \/ \E c \in CallIds : DeleteReviewDone(c)
  \/ \E c \in CallIds : UpdateProductGet(c)
  \/ \E c \in CallIds : UpdateProductDone(c)
  \/ \E c \in CallIds : StoreFails(c)


(***************************************************************************)
(* The methods of databaseService, called one at a time.  op holds the     *)
(* call in progress; each await of a store operation is a step.  The clock *)
(* is read where the method reads it and has moved on when the method      *)
(* ends.  MaxOps bounds the number of calls that write.                    *)
(***************************************************************************)
MaxOps == 2

IdleOp ==
  [name |-> "none", pc |-> "idle", key |-> "", data |-> <<>>,
   read |-> <<>>, time |-> 0, updatedData |-> <<>>, updates |-> {},
   result |-> <<>>, error |-> "", failedAt |-> "", writes |-> 0,
   before |-> <<>>]

\* new Date(t).toISOString() for a time t of the first day of the epoch
Pad(n, width) ==
  IF width = 3 /\ n < 10 THEN "00" \o ToString(n)
  ELSE IF width = 3 /\ n < 100 THEN "0" \o ToString(n)
  ELSE IF width = 2 /\ n < 10 THEN "0" \o ToString(n)
  ELSE ToString(n)

ToISOString(t) ==
  "1970-01-01T" \o Pad(t \div 3600000, 2) \o ":"
    \o Pad((t \div 60000) % 60, 2) \o ":"
    \o Pad((t \div 1000) % 60, 2) \o "." \o Pad(t % 1000, 3) \o "Z"

UnknownProductId == "p0"
UnknownCardId == "c0"
CardUuidNotFound == "Card with UUID not found"

OpInFlight == {"get", "update", "set", "remove", "cleanup.get",
               "cleanup.update"}

MayCall == op.pc \notin OpInFlight /\ now < 10 + MaxOps

\* a call of a method with a key and the caller's data
Called(name, pc, key, data) ==
  [IdleOp EXCEPT !.name = name, !.pc = pc, !.key = key, !.data = <<data>>]

\* the fields a caller of updateProduct passes
ProductUpdates ==
  {[rating |-> 45, review_count |-> 7, updatedAt |-> 5], [name |-> "pear"]}

\* updateProduct line 64-68 with the caller's updatedAt kept
UpdatedDataCallerStamp(currentData, data, time) ==
  Merge(Merge(currentData, [updatedAt |-> time]), data)

\* updateProduct line 64-68: { ...currentData, ...data, updatedAt: now }
UpdatedData(currentData, data, time) ==
  Merge(Merge(currentData, data), [updatedAt |-> time])

\* updateProduct lines 54-57: the get of the product is issued
UpdateProductCalled ==
  /\ MayCall
  /\ \E id \in {"p1", UnknownProductId}, data \in ProductUpdates :
        op' = Called("updateProduct", "get", id, data)
  /\ UNCHANGED <<dbProducts, dbReviews, products, reviews, stats, calls,
                 now, dbCards, dbSaved, pushed, bulk, editVars>>

\* updateProduct lines 57-70: the get completed
UpdateProductRead ==
  /\ op.name = "updateProduct" /\ op.pc = "get"
  /\ op' = IF op.key \notin DOMAIN dbProducts
             THEN [op EXCEPT !.pc = "rejected", !.error = ProductIdNotFound]
             ELSE [op EXCEPT !.pc = "update",
                             !.read = <<dbProducts[op.key]>>,
                             !.time = now,
                             !.updatedData =
                                <<UpdatedData(dbProducts[op.key],
                                              op.data[1], now)>>]
  /\ UNCHANGED <<dbProducts, dbReviews, products, reviews, stats, calls,
                 now, dbCards, dbSaved, pushed, bulk, editVars>>

\* updateProduct line 70: the update completed
UpdateProductWritten ==
  /\ op.name = "updateProduct" /\ op.pc = "update"
  /\ dbProducts' = Update(dbProducts, op.key, op.updatedData[1])
  /\ op' = [op EXCEPT !.pc = "fulfilled"]
  /\ now' = now + 1
  /\ UNCHANGED <<dbReviews, products, reviews, stats, calls, dbCards,
                 dbSaved, pushed, bulk, editVars>>

\* the fields a caller of updateReview passes
ReviewUpdates == {[rating |-> 3], [id |-> "r2", createdAt |-> 7]}

\* updateReview lines 123-126: the update of the review is issued with
\* { ...data, updatedAt: now }
UpdateReviewCalled ==
  /\ MayCall
  /\ \E id \in {"r1", UnknownId}, data \in ReviewUpdates :
        op' = [Called("updateReview", "update", id, data) EXCEPT
                 !.time = now,
                 !.updatedData = <<Merge(data, [updatedAt |-> now])>>]
  /\ UNCHANGED <<dbProducts, dbReviews, products, reviews, stats, calls,
                 now, dbCards, dbSaved, pushed, bulk, editVars>>

\* updateReview line 126: the update completed
UpdateReviewWritten ==
  /\ op.name = "updateReview" /\ op.pc = "update"
  /\ dbReviews' = Update(dbReviews, op.key, op.updatedData[1])
  /\ op' = [op EXCEPT !.pc = "fulfilled"]
  /\ now' = now + 1
  /\ UNCHANGED <<dbProducts, products, reviews, stats, calls, dbCards,
                 dbSaved, pushed, bulk, editVars>>

\* the data a caller of createProduct passes
NewProducts ==
  {[name |-> "plum"],
   [name |-> "fig", id |-> "p1", itemId |-> "p1", rating |-> 45,
    review_count |-> 2, createdAt |-> 5]}

\* data.field || 0
OrZero(data, field) ==
  IF field \in DOMAIN data /\ data[field] # 0 THEN data[field] ELSE 0

\* createProduct lines 85-93
ProductData(data, key, createdAt, updatedAt) ==
  Merge(data, [id |-> key, itemId |-> key, createdAt |-> createdAt,
               updatedAt |-> updatedAt, rating |-> OrZero(data, "rating"),
               review_count |-> OrZero(data, "review_count")])

\* createProduct lines 80-95: push generates the key, the record is built
\* and its set is issued.  createdAt and updatedAt are two readings of the
\* clock, the second taken right after the first: it is the same
\* millisecond or the next one.
CreateProductCalled ==
  /\ MayCall
  /\ pushed < MaxPush
  /\ \E data \in NewProducts, tick \in {0, 1} :
        LET key == PushKeyOrder[pushed + 1]
        IN  op' = [Called("createProduct", "set", key, data) EXCEPT
                     !.time = now,
                     !.updatedData =
                        <<ProductData(data, key, now, now + tick)>>]
  /\ pushed' = pushed + 1
  /\ UNCHANGED <<dbProducts, dbReviews, products, reviews, stats, calls,
                 now, dbCards, dbSaved, bulk, editVars>>

\* set(ref(db, path), value): replaces what the path holds
Set(db, key, value) ==
  [k \in (DOMAIN db) \cup {key} |-> IF k = key THEN value ELSE db[k]]

\* createProduct lines 95-96: the set completed; the key is returned
CreateProductSet ==
  /\ op.name = "createProduct" /\ op.pc = "set"
  /\ dbProducts' = Set(dbProducts, op.key, op.updatedData[1])
  /\ op' = [op EXCEPT !.pc = "fulfilled", !.result = <<op.key>>]
  /\ now' = now + 2
  /\ UNCHANGED <<dbReviews, products, reviews, stats, calls, dbCards,
                 dbSaved, pushed, bulk, editVars>>

\* getReviews lines 100-103: the get of reviews is issued
GetReviewsCalled ==
  /\ op.pc \notin OpInFlight
  /\ op' = [IdleOp EXCEPT !.name = "getReviews", !.pc = "get"]
  /\ UNCHANGED <<dbProducts, dbReviews, products, reviews, stats, calls,
                 now, dbCards, dbSaved, pushed, bulk, editVars>>

\* getReviews lines 103-114: the get completed; the list is returned
GetReviewsRead ==
  /\ op.name = "getReviews" /\ op.pc = "get"
  /\ op' = [op EXCEPT !.pc = "fulfilled",
                      !.result = <<GetReviews(dbReviews)>>]
  /\ UNCHANGED <<dbProducts, dbReviews, products, reviews, stats, calls,
                 now, dbCards, dbSaved, pushed, bulk, editVars>>

\* updateLearningCard lines 194-197: the get of the card is issued
UpdateLearningCardCalled ==
  /\ MayCall
  /\ \E uuid \in {"c1", UnknownCardId} :
        op' = Called("updateLearningCard", "get", uuid, [title |-> "new"])
  /\ UNCHANGED <<dbProducts, dbReviews, products, reviews, stats, calls,
                 now, dbCards, dbSaved, pushed, bulk, editVars>>

\* updateLearningCard lines 197-206: the get completed
UpdateLearningCardRead ==
  /\ op.name = "updateLearningCard" /\ op.pc = "get"
  /\ op' = IF op.key \notin DOMAIN dbCards
             THEN [op EXCEPT !.pc = "rejected", !.error = CardUuidNotFound]
             ELSE [op EXCEPT !.pc = "update",
                             !.read = <<dbCards[op.key]>>,
                             !.updatedData =
                                <<Merge(dbCards[op.key], op.data[1])>>]
  /\ UNCHANGED <<dbProducts, dbReviews, products, reviews, stats, calls,
                 now, dbCards, dbSaved, pushed, bulk, editVars>>

\* updateLearningCard line 206: the update completed
UpdateLearningCardWritten ==
  /\ op.name = "updateLearningCard" /\ op.pc = "update"
  /\ dbCards' = Update(dbCards, op.key, op.updatedData[1])
  /\ op' = [op EXCEPT !.pc = "fulfilled"]
  /\ now' = now + 1
  /\ UNCHANGED <<dbProducts, dbReviews, products, reviews, stats, calls,
                 dbSaved, pushed, bulk, editVars>>

\* the store operation the method is waiting for fails; the method throws
OpStoreFails ==
  /\ op.pc \in OpInFlight
  /\ op' = [op EXCEPT !.pc = "rejected", !.error = StoreUnavailable,
                      !.failedAt = op.pc]
  /\ UNCHANGED <<dbProducts, dbReviews, products, reviews, stats, calls,
                 now, dbCards, dbSaved, pushed, bulk, editVars>>

\* lines 231-236 with every entry of a user who bookmarked the card listed
CleanupUpdatesOfUsers(savedData, uuid) ==
  {b \in DOMAIN savedData : <<b[1], uuid>> \in DOMAIN savedData
                            /\ savedData[<<b[1], uuid>>]}

\* cleanupSavedCards lines 229-236: the paths set to null, one for every
\* user whose entry for the card is truthy
CleanupUpdates(savedData, uuid) ==
  {b \in DOMAIN savedData : b[2] = uuid /\ savedData[b]}

\* an update that removes the path of the first user only
FirstPathUpdate(saved, updates) ==
  IF updates = {} THEN saved
  ELSE LET first == CHOOSE b \in updates : \A c \in updates :
                       IndexIn(UserOrder, b[1]) <= IndexIn(UserOrder, c[1])
       IN  [b \in (DOMAIN saved) \ {first} |-> saved[b]]

\* update(ref(db), updates) with every listed path set to null: all the
\* paths are removed in one write
MultiPathUpdate(saved, updates) ==
  [b \in (DOMAIN saved) \ updates |-> saved[b]]

\* deleteLearningCard lines 210-213: the remove of the card is issued
DeleteLearningCardCalled ==
  /\ MayCall
  /\ \E uuid \in CardKeys \cup {UnknownCardId} :
        op' = [IdleOp EXCEPT
                 !.name = "deleteLearningCard", !.pc = "remove",
                 !.key = uuid,
                 !.before = <<[cards |-> dbCards, saved |-> dbSaved]>>]
  /\ UNCHANGED <<dbProducts, dbReviews, products, reviews, stats, calls,
                 now, dbCards, dbSaved, pushed, bulk, editVars>>

\* lines 213-214 and 219-222: the remove completed; cleanupSavedCards is
\* called and issues its get of user_saved_cards
DeleteLearningCardRemoved ==
  /\ op.name = "deleteLearningCard" /\ op.pc = "remove"
  /\ dbCards' = Remove(dbCards, op.key)
  /\ op' = [op EXCEPT !.pc = "cleanup.get"]
  /\ UNCHANGED <<dbProducts, dbReviews, products, reviews, stats, calls,
                 now, dbSaved, pushed, bulk, editVars>>

\* cleanupSavedCards lines 222-239: the get completed.  The method returns
\* when nothing is stored or no user bookmarked the card, and issues the
\* one update of all the paths otherwise.
CleanupSavedCardsRead ==
  LET updates == CleanupUpdates(dbSaved, op.key)
  IN  /\ op.name = "deleteLearningCard" /\ op.pc = "cleanup.get"
      /\ IF DOMAIN dbSaved = {} \/ updates = {}
           THEN /\ op' = [op EXCEPT !.pc = "fulfilled"]
                /\ now' = now + 1
           ELSE /\ op' = [op EXCEPT !.pc = "cleanup.update",
                                    !.read = <<dbSaved>>,
                                    !.updates = updates]
                /\ now' = now
      /\ UNCHANGED <<dbProducts, dbReviews, products, reviews, stats,
                     calls, dbCards, dbSaved, pushed, bulk, editVars>>

\* cleanupSavedCards line 239: the update completed
CleanupSavedCardsWritten ==
  /\ op.name = "deleteLearningCard" /\ op.pc = "cleanup.update"
  /\ dbSaved' = MultiPathUpdate(dbSaved, op.updates)
  /\ op' = [op EXCEPT !.pc = "fulfilled", !.writes = @ + 1]
  /\ now' = now + 1
  /\ UNCHANGED <<dbProducts, dbReviews, products, reviews, stats, calls,
                 dbCards, pushed, bulk, editVars>>

\* the cardData passed to createLearningCard: that of handleSubmit of
\* LearningCardEditModal, with the createdAt it read just before, and one
\* with a uuid and a createdAt of the caller's own
NewCards(time) ==
  {[title |-> "new", imageUrl |-> "img", isSaved |-> FALSE,
    createdAt |-> ToISOString(t)] : t \in {time - 1, time}}
    \cup {[title |-> "copy", imageUrl |-> "img", isSaved |-> FALSE,
           uuid |-> "c1", createdAt |-> "2020-02-02T02:02:02.020Z"]}

\* lines 184-188 with the caller's uuid and createdAt kept
CardCallerFields(cardData, uuid, time) ==
  Merge([uuid |-> uuid, createdAt |-> ToISOString(time)], cardData)

\* createLearningCard lines 184-188
Card(cardData, uuid, time) ==
  Merge(cardData, [uuid |-> uuid, createdAt |-> ToISOString(time)])

\* createLearningCard lines 176-190: push generates the key, the card is
\* built and its set is issued
CreateLearningCardCalled ==
  /\ MayCall
  /\ pushed < MaxPush
  /\ \E cardData \in NewCards(now) :
        LET uuid == PushKeyOrder[pushed + 1]
        IN  op' = [Called("createLearningCard", "set", uuid, cardData)
                     EXCEPT !.time = now,
                            !.updatedData = <<Card(cardData, uuid, now)>>,
                            !.before = <<[cards |-> dbCards,
                                          saved |-> dbSaved]>>]
  /\ pushed' = pushed + 1
  /\ UNCHANGED <<dbProducts, dbReviews, products, reviews, stats, calls,
                 now, dbCards, dbSaved, bulk, editVars>>

\* createLearningCard lines 190-191: the set completed; the card is
\* returned
CreateLearningCardSet ==
  /\ op.name = "createLearningCard" /\ op.pc = "set"
  /\ dbCards' = Set(dbCards, op.key, op.updatedData[1])
  /\ op' = [op EXCEPT !.pc = "fulfilled", !.result = op.updatedData]
  /\ now' = now + 1
  /\ UNCHANGED <<dbProducts, dbReviews, products, reviews, stats, calls,
                 dbSaved, pushed, bulk, editVars>>

NextCards ==
  \/ DeleteLearningCardCalled
  \/ DeleteLearningCardRemoved
  \/ CleanupSavedCardsRead
  \/ CleanupSavedCardsWritten
  \/ CreateLearningCardCalled
  \/ CreateLearningCardSet
  \/ OpStoreFails

NextRepo ==
  \/ UpdateProductCalled
  \/ UpdateProductRead
  \/ UpdateProductWritten
  \/ UpdateReviewCalled
  \/ UpdateReviewWritten
  \/ CreateProductCalled
  \/ CreateProductSet
  \/ GetReviewsCalled
  \/ GetReviewsRead
  \/ UpdateLearningCardCalled
  \/ UpdateLearningCardRead
  \/ UpdateLearningCardWritten
  \/ OpStoreFails


(***************************************************************************)
(* Blob storage: deleteImage of lib/storage.ts and                         *)
(* deleteImageFromFirebase of ProductEditModal.  A URL is its raw path: a   *)
(* sequence of segments separated by "/", each segment a sequence of parts *)
(* separated by an encoded slash "%2F"; valid says whether new URL()       *)
(* accepts the string.                                                     *)
(***************************************************************************)
Url(valid, raw) == [valid |-> valid, raw |-> raw]

ImageNames == {"a.jpg", "b.jpg", "c.jpg"}

\* the download URL getDownloadURL returns for marketplace/<name>
DownloadUrl(name) ==
  Url(TRUE, <<<<"v0">>, <<"b">>, <<"bucket">>, <<"o">>,
              <<"marketplace", name>>>>)

\* URLs without an /o/<path> segment
CdnUrl(name) == Url(TRUE, <<<<"marketplace">>, <<name>>>>)
PlainUrl == Url(TRUE, <<<<"images">>, <<"a.jpg">>>>)
BareObjectUrl == Url(TRUE, <<<<"v0">>, <<"o">>>>)
NotAUrl == Url(FALSE, <<<<"marketplace">>, <<"a.jpg">>>>)
RelativeUrl == Url(FALSE, <<<<"a.jpg">>>>)

StorageUrls ==
  {DownloadUrl(n) : n \in ImageNames} \cup {CdnUrl(n) : n \in ImageNames}
    \cup {PlainUrl, BareObjectUrl, NotAUrl, RelativeUrl}

InvalidStorageUrl == "Invalid storage URL"
InvalidUrl == "Invalid URL"

RECURSIVE Flatten(_)
\* decodeURIComponent: every %2F becomes a separator
Flatten(raw) ==
  IF raw = <<>> THEN <<>> ELSE Head(raw) \o Flatten(Tail(raw))

DecodeURIComponent(url) ==
  Url(url.valid, [i \in 1..Len(Flatten(url.raw)) |-> <<Flatten(url.raw)[i]>>])

RECURSIVE Join(_)
\* the segments joined by "/"
Join(segments) ==
  IF segments = <<>> THEN ""
  ELSE IF Len(segments) = 1 THEN Head(segments)
  ELSE Head(segments) \o "/" \o Join(Tail(segments))

\* s.match(/<word>\/(.+)/): the capture group after the leftmost segment
\* <word> that something follows, or no match
MatchAfter(raw, word) ==
  LET hits == {i \in 1..(Len(raw) - 1) : raw[i] = <<word>>}
      first == CHOOSE i \in hits : \A j \in hits : i <= j
  IN  IF hits = {} THEN <<>>
      ELSE <<Join(Flatten(SubSeq(raw, first + 1, Len(raw))))>>

\* the object path of a URL: the /o/<path> segment of its decoded pathname
ObjectPath(url) == MatchAfter(DecodeURIComponent(url).raw, "o")

BlobInFlight == {"deleteObject"}

\* storage.ts lines 47-58: deleteImage(url) up to the deleteObject it issues
DeleteImageCalled ==
  /\ op.pc \notin BlobInFlight
  /\ \E url \in StorageUrls :
       op' = IF ~url.valid
               THEN [Called("deleteImage", "rejected", "", url)
                       EXCEPT !.error = InvalidUrl]
             ELSE IF ObjectPath(url) = <<>>
               THEN [Called("deleteImage", "rejected", "", url)
                       EXCEPT !.error = InvalidStorageUrl]
             ELSE [Called("deleteImage", "deleteObject", ObjectPath(url)[1],
                          url) EXCEPT !.writes = 1]
  /\ UNCHANGED <<dbProducts, dbReviews, products, reviews, stats, calls,
                 now, dbCards, dbSaved, pushed, bulk, editVars>>

\* part_004 lines 192-215: deleteImageFromFirebase(url) up to the
\* deleteObject it issues; the catch of lines 216-220 swallows every error
DeleteImageFromFirebaseCalled ==
  /\ op.pc \notin BlobInFlight
  /\ \E url \in StorageUrls :
       LET decoded == DecodeURIComponent(url)
           match == MatchAfter(decoded.raw, "o")
           altMatch == MatchAfter(url.raw, "marketplace")
           call(pc, path) == Called("deleteImageFromFirebase", pc, path, url)
       IN  op' = IF ~decoded.valid THEN call("fulfilled", "")
                 ELSE IF match # <<>>
                   THEN [call("deleteObject", match[1]) EXCEPT !.writes = 1]
                 ELSE IF altMatch # <<>>
                   THEN [call("deleteObject", "marketplace/" \o altMatch[1])
                           EXCEPT !.writes = 1]
                 ELSE call("fulfilled", "")
  /\ UNCHANGED <<dbProducts, dbReviews, products, reviews, stats, calls,
                 now, dbCards, dbSaved, pushed, bulk, editVars>>

\* deleteObject(ref) completed: the object is gone
DeleteObjectDone ==
  /\ op.pc = "deleteObject"
  /\ blobs' = blobs \ {op.key}
  /\ op' = [op EXCEPT !.pc = "fulfilled"]
  /\ UNCHANGED <<dbProducts, dbReviews, products, reviews, stats, calls,
                 now, dbCards, dbSaved, pushed, bulk, modal, rival>>

\* deleteObject(ref) rejected: storage.ts lines 60-63 rethrow, part_004
\* lines 216-220 log and return
DeleteObjectFails ==
  /\ op.pc = "deleteObject"
  /\ op' = IF op.name = "deleteImage"
             THEN [op EXCEPT !.pc = "rejected", !.error = StoreUnavailable,
                             !.failedAt = op.pc]
             ELSE [op EXCEPT !.pc = "fulfilled", !.failedAt = op.pc]
  /\ UNCHANGED <<dbProducts, dbReviews, products, reviews, stats, calls,
                 now, dbCards, dbSaved, pushed, bulk, editVars>>

NextBlob ==
  \/ DeleteImageCalled
  \/ DeleteImageFromFirebaseCalled
  \/ DeleteObjectDone
  \/ DeleteObjectFails


(***************************************************************************)
(* lib/data-service.ts and AdminDashboardPage: the wrappers of the         *)
(* databaseService reads and of deleteProduct, each with its catch block.  *)
(* A call that returned null is fulfilled with an empty result.            *)
(***************************************************************************)
FailedToFetchProducts == "Failed to fetch products"

ServiceInFlight == {"get", "remove"}

ServiceMayCall == op.pc \notin ServiceInFlight

\* data-service.ts lines 4-6: getProducts() issues the list read
ServiceGetProductsCalled ==
  /\ ServiceMayCall
  /\ op' = Called("getProducts", "get", "", <<>>)
  /\ UNCHANGED <<dbProducts, dbReviews, products, reviews, stats, calls,
                 now, dbCards, dbSaved, pushed, bulk, editVars>>

\* data-service.ts lines 6-7: the list is returned
ServiceGetProductsRead ==
  /\ op.name = "getProducts" /\ op.pc = "get"
  /\ op' = [op EXCEPT !.pc = "fulfilled",
                      !.result = <<GetProducts(dbProducts)>>]
  /\ UNCHANGED <<dbProducts, dbReviews, products, reviews, stats, calls,
                 now, dbCards, dbSaved, pushed, bulk, editVars>>

\* data-service.ts lines 34-36: getProductById(id) issues the read
ServiceGetProductByIdCalled ==
  /\ ServiceMayCall
  /\ \E id \in ProductKeys \cup {UnknownProductId} :
        op' = Called("getProductById", "get", id, <<>>)
  /\ UNCHANGED <<dbProducts, dbReviews, products, reviews, stats, calls,
                 now, dbCards, dbSaved, pushed, bulk, editVars>>

\* database.ts lines 45-52: null for an absent record, else { id, ...val }
ServiceGetProductByIdRead ==
  /\ op.name = "getProductById" /\ op.pc = "get"
  /\ op' = [op EXCEPT !.pc = "fulfilled",
                      !.result =
                         IF op.key \in DOMAIN dbProducts
                           THEN <<Merge([id |-> op.key],
                                        dbProducts[op.key])>>
                           ELSE <<>>]
  /\ UNCHANGED <<dbProducts, dbReviews, products, reviews, stats, calls,
                 now, dbCards, dbSaved, pushed, bulk, editVars>>

\* data-service.ts lines 43-47: getLearningCardById(uuid) issues the read
ServiceGetLearningCardByIdCalled ==
  /\ ServiceMayCall
  /\ \E uuid \in {"c1", UnknownCardId} :
        op' = Called("getLearningCardById", "get", uuid, <<>>)
  /\ UNCHANGED <<dbProducts, dbReviews, products, reviews, stats, calls,
                 now, dbCards, dbSaved, pushed, bulk, editVars>>

\* database.ts lines 167-174: null for an absent card, else { uuid, ...val }
ServiceGetLearningCardByIdRead ==
  /\ op.name = "getLearningCardById" /\ op.pc = "get"
  /\ op' = [op EXCEPT !.pc = "fulfilled",
                      !.result =
                         IF op.key \in DOMAIN dbCards
                           THEN <<Merge([uuid |-> op.key],
                                        dbCards[op.key])>>
                           ELSE <<>>]
  /\ UNCHANGED <<dbProducts, dbReviews, products, reviews, stats, calls,
                 now, dbCards, dbSaved, pushed, bulk, editVars>>

\* data-service.ts lines 55-57: deleteProduct(id) issues the remove
ServiceDeleteProductCalled ==
  /\ ServiceMayCall
  /\ \E id \in ProductKeys :
        op' = Called("deleteProduct", "remove", id, <<>>)
  /\ UNCHANGED <<dbProducts, dbReviews, products, reviews, stats, calls,
                 now, dbCards, dbSaved, pushed, bulk, editVars>>

\* database.ts lines 73-77: the remove completed
ServiceDeleteProductRemoved ==
  /\ op.name = "deleteProduct" /\ op.pc = "remove"
  /\ dbProducts' = Remove(dbProducts, op.key)
  /\ op' = [op EXCEPT !.pc = "fulfilled"]
  /\ UNCHANGED <<dbReviews, products, reviews, stats, calls, now, dbCards,
                 dbSaved, pushed, bulk, editVars>>

\* page.tsx lines 15-22: the page of a session requests the three lists
PageRequested ==
  /\ ServiceMayCall
  /\ \E s \in Sessions :
        op' = Called("AdminDashboardPage", "get", s, <<>>)
  /\ UNCHANGED <<dbProducts, dbReviews, products, reviews, stats, calls,
                 now, dbCards, dbSaved, pushed, bulk, editVars>>

\* page.tsx lines 18-46: the lists arrived; the client is rendered with
\* them and their stats
PageRendered ==
  /\ op.name = "AdminDashboardPage" /\ op.pc = "get"
  /\ products' = [products EXCEPT ![op.key] = GetProducts(dbProducts)]
  /\ reviews' = [reviews EXCEPT ![op.key] = GetReviews(dbReviews)]
  /\ stats' = [stats EXCEPT ![op.key] =
                  LoadedStats(GetProducts(dbProducts), GetReviews(dbReviews))]
  /\ op' = [op EXCEPT !.pc = "fulfilled"]
  /\ UNCHANGED <<dbProducts, dbReviews, calls, now, dbCards, dbSaved, pushed,
                 bulk, editVars>>

\* the store rejects the read or the remove in flight; the catch block of
\* the wrapper decides what its caller sees: getProducts throws (lines
\* 8-11), deleteProduct rethrows (58-61), getProductById and
\* getLearningCardById return null (37-40, 48-51), the page renders the
\* client with empty lists and zero stats (page.tsx 47-64)
ServiceStoreFails ==
  /\ op.pc \in ServiceInFlight
  /\ op.name \in {"getProducts", "getProductById", "getLearningCardById",
                  "deleteProduct", "AdminDashboardPage"}
  /\ op' = IF op.name = "getProducts"
             THEN [op EXCEPT !.pc = "rejected",
                             !.error = FailedToFetchProducts,
                             !.failedAt = op.pc]
           ELSE IF op.name = "deleteProduct"
             THEN [op EXCEPT !.pc = "rejected", !.error = StoreUnavailable,
                             !.failedAt = op.pc]
           ELSE [op EXCEPT !.pc = "fulfilled", !.result = <<>>,
                           !.failedAt = op.pc]
  /\ IF op.name = "AdminDashboardPage"
       THEN /\ products' = [products EXCEPT ![op.key] = <<>>]
            /\ reviews' = [reviews EXCEPT ![op.key] = <<>>]
            /\ stats' = [stats EXCEPT ![op.key] = LoadedStats(<<>>, <<>>)]
       ELSE UNCHANGED <<products, reviews, stats>>
  /\ UNCHANGED <<dbProducts, dbReviews, calls, now, dbCards, dbSaved, pushed,
                 bulk, editVars>>

NextService ==
  \/ ServiceGetProductsCalled
  \/ ServiceGetProductsRead
  \/ ServiceGetProductByIdCalled
  \/ ServiceGetProductByIdRead
  \/ ServiceGetLearningCardByIdCalled
  \/ ServiceGetLearningCardByIdRead
  \/ ServiceDeleteProductCalled
  \/ ServiceDeleteProductRemoved
  \/ PageRequested
  \/ PageRendered
  \/ ServiceStoreFails

(***************************************************************************)
(* ProductEditModal (part_004): the image state of the modal, the steps of *)
(* handleSubmit, and the two ways handleClose runs: from a click, with the *)
(* state of the current render, and from the Escape listener, which the    *)
(* effect of lines 67-83 registers when isOpen changes and which therefore *)
(* calls the handleClose of the render in which the modal opened.          *)
(***************************************************************************)
MaxFiles == 2
MaxMarked == 2
MaxOpens == 1
MaxSubmits == 1

EditedProduct == "p1"
ExistingImageOrder == <<"a.jpg", "b.jpg", "c.jpg", "d.jpg", "e.jpg">>
LocalIdOrder == <<"f1", "f2", "f3">>
LocalIds == {LocalIdOrder[i] : i \in 1..MaxFiles}
FileLists == {<<TRUE>>, <<TRUE, TRUE>>, <<FALSE, TRUE>>}
TooManyImages == "You can only upload more images"
FailedToUpload == "Failed to upload"

SeqRange(seq) == {seq[i] : i \in 1..Len(seq)}

\* seq.filter((x) => x !== gone), for every gone of the set
Without(seq, gone) ==
  LET keep(x) == x \notin gone IN SelectSeq(seq, keep)

IdleSave ==
  [pc |-> "idle", id |-> "", formData |-> <<>>,
   localImages |-> <<>>, existingImages |-> <<>>,
   imagesToDelete |-> <<>>, uploadTasks |-> {}, uploadedUrls |-> <<>>,
   deleting |-> {}, updates |-> <<>>, error |-> ""]

\* the state of lines 35-60 after the reset of handleClose; tasks is the
\* state of every transfer task, revoked the previews revoked so far
ClosedModal ==
  [isOpen |-> FALSE, product |-> <<>>, formData |-> <<>>,
   existingImages |-> <<>>, localImages |-> <<>>, imagesToDelete |-> <<>>,
   isLoading |-> FALSE, uploading |-> FALSE, error |-> "",
   uploadTasks |-> {},
   escape |-> [uploadTasks |-> {}, localImages |-> <<>>],
   tasks |-> [id \in LocalIds |-> "none"], revoked |-> {},
   created |-> 0, opens |-> 0, submits |-> 0, save |-> IdleSave]

\* task.cancel() for every task of the set: a running transfer is cancelled
Cancel(tasks, ids) ==
  [id \in DOMAIN tasks |->
     IF id \in ids /\ tasks[id] = "running" THEN "cancelled" ELSE tasks[id]]

\* lines 143-148 and 374-388: the upload promise of a cancelled or failed
\* task rejects, Promise.all rejects, and the catch and finally of
\* handleSubmit (lines 421-430) run
SaveAfter(save, tasks) ==
  IF save.pc = "uploading"
       /\ \E id \in SeqRange(save.localImages) :
             tasks[id] \in {"cancelled", "failed"}
    THEN [save EXCEPT !.pc = "failed", !.error = FailedToUpload]
    ELSE save

\* lines 436-465 run with the uploadTasks and localImages of a render
Closed(m, uploadTasks, localImages) ==
  LET tasks == Cancel(m.tasks, uploadTasks)
      save == SaveAfter(m.save, tasks)
      settled == save.pc = "failed" /\ m.save.pc # "failed"
  IN  [m EXCEPT !.isOpen = FALSE, !.formData = <<>>,
                !.existingImages = <<>>, !.localImages = <<>>,
                !.imagesToDelete = <<>>, !.error = "",
                !.uploading = FALSE, !.uploadTasks = {},
                !.isLoading = IF settled THEN FALSE ELSE @,
                !.tasks = tasks,
                !.revoked = @ \cup SeqRange(localImages),
                !.save = save]

\* lines 86-121: the parent opens the modal on the stored product
OpenModal ==
  /\ ~modal.isOpen /\ modal.opens < MaxOpens
  /\ EditedProduct \in DOMAIN dbProducts
  /\ LET product == Merge([id |-> EditedProduct], dbProducts[EditedProduct])
     IN  modal' = [modal EXCEPT
           !.isOpen = TRUE, !.opens = @ + 1, !.product = <<product>>,
           !.formData = [name |-> product.name, unit |-> product.unit],
           !.existingImages = product.images,
           !.localImages = <<>>, !.imagesToDelete = <<>>, !.error = "",
           !.uploading = FALSE, !.uploadTasks = {},
           !.tasks = Cancel(modal.tasks, modal.uploadTasks),
           !.revoked = @ \cup SeqRange(modal.localImages),
           !.escape = [uploadTasks |-> modal.uploadTasks,
                       localImages |-> modal.localImages]]
  /\ UNCHANGED <<dbProducts, dbReviews, products, reviews, stats, calls,
                 now, dbCards, dbSaved, pushed, op, bulk, blobs, rival>>

\* lines 223-285: files are chosen in the file input (enabled by line 699);
\* a file is listed by whether its type and size are accepted
HandleFileUpload ==
  /\ modal.isOpen /\ ~modal.uploading
  /\ Len(modal.localImages) + Len(modal.existingImages)
       - Len(modal.imagesToDelete) < 5
  /\ \E files \in FileLists :
       LET totalImages == Len(modal.localImages) + Len(modal.existingImages)
                            - Len(modal.imagesToDelete)
           accepted == {i \in 1..Len(files) : files[i]}
           newImages == [i \in 1..Cardinality(accepted) |->
                           LocalIdOrder[modal.created + i]]
       IN  /\ modal.created + Cardinality(accepted) <= MaxFiles
           /\ modal' =
                IF totalImages + Len(files) > 5
                  THEN [modal EXCEPT !.error = TooManyImages]
                  ELSE [modal EXCEPT
                          !.localImages = @ \o newImages,
                          !.created = @ + Len(newImages),
                          !.error = ""]
  /\ UNCHANGED <<dbProducts, dbReviews, products, reviews, stats, calls,
                 now, dbCards, dbSaved, pushed, op, bulk, blobs, rival>>

\* lines 287-293: an existing image is clicked
MarkImageForDeletion ==
  /\ modal.isOpen
  /\ \E i \in 1..MaxMarked :
       /\ i <= Len(modal.existingImages)
       /\ LET url == modal.existingImages[i]
          IN  modal' = [modal EXCEPT !.imagesToDelete =
                          IF url \in SeqRange(@) THEN Without(@, {url})
                          ELSE Append(@, url)]
  /\ UNCHANGED <<dbProducts, dbReviews, products, reviews, stats, calls,
                 now, dbCards, dbSaved, pushed, op, bulk, blobs, rival>>

\* lines 295-310: the remove button of a local image (enabled by line 786)
RemoveLocalImage ==
  /\ modal.isOpen /\ ~modal.uploading
  /\ \E id \in SeqRange(modal.localImages) :
       modal' = [modal EXCEPT
                   !.tasks = Cancel(@, modal.uploadTasks \cap {id}),
                   !.uploadTasks = @ \ {id},
                   !.revoked = @ \cup {id},
                   !.localImages = Without(@, {id})]
  /\ UNCHANGED <<dbProducts, dbReviews, products, reviews, stats, calls,
                 now, dbCards, dbSaved, pushed, op, bulk, blobs, rival>>

\* the name uploadImageToFirebase gives the file of a local image (lines
\* 132-135: a timestamp and a random string, distinct for every upload)
UploadName(id, submit) == id \o "-" \o ToString(submit) \o ".jpg"

\* part_004 lines 192-215: the object deleteImageFromFirebase deletes, if
\* any: the /o/<path> of the decoded URL, else marketplace/<rest>
DeleteTarget(url) ==
  LET decoded == DecodeURIComponent(url)
      match == MatchAfter(decoded.raw, "o")
      altMatch == MatchAfter(url.raw, "marketplace")
  IN  IF ~decoded.valid THEN <<>>
      ELSE IF match # <<>> THEN match
      ELSE IF altMatch # <<>> THEN <<"marketplace/" \o altMatch[1]>>
      ELSE <<>>

\* lines 402-415: the updates of the product
Updates(save, formData, time) ==
  [name |-> formData.name, unit |-> formData.unit,
   images |-> Without(save.existingImages, SeqRange(save.imagesToDelete))
                \o save.uploadedUrls,
   updatedAt |-> time]

\* lines 390-418 once every upload has resolved: the deletes are issued,
\* or, with nothing to delete, onSave is called
Uploaded(save, time) ==
  IF save.imagesToDelete # <<>>
    THEN [save EXCEPT !.pc = "deleting",
                      !.deleting = SeqRange(save.imagesToDelete)]
    ELSE [save EXCEPT !.pc = "saving",
                      !.updates = <<Updates(save, save.formData, time)>>]

\* lines 362-391: the form is submitted (the button is enabled by line
\* 811); every local image gets a transfer task
HandleSubmit ==
  /\ modal.isOpen /\ ~modal.isLoading /\ ~modal.uploading
  /\ modal.submits < MaxSubmits
  /\ modal.formData.name # "" /\ modal.formData.unit # ""
  /\ LET started == [IdleSave EXCEPT
                       !.pc = "uploading",
                       !.id = modal.product[1].id,
                       !.formData = modal.formData,
                       !.localImages = modal.localImages,
                       !.existingImages = modal.existingImages,
                       !.imagesToDelete = modal.imagesToDelete,
                       !.uploadTasks = modal.uploadTasks]
     IN  modal' = [modal EXCEPT
           !.isLoading = TRUE, !.uploading = TRUE, !.error = "",
           !.submits = @ + 1,
           !.uploadTasks = @ \cup SeqRange(modal.localImages),
           !.tasks = [id \in LocalIds |->
                        IF id \in SeqRange(modal.localImages)
                          THEN "running" ELSE @[id]],
           !.save = IF modal.localImages = <<>>
                      THEN Uploaded(started, now)
                      ELSE started]
  /\ UNCHANGED <<dbProducts, dbReviews, products, reviews, stats, calls,
                 now, dbCards, dbSaved, pushed, op, bulk, blobs, rival>>

\* lines 149-158 and 380: a transfer completed and its download URL is
\* pushed to uploadedUrls
UploadDone ==
  \E id \in LocalIds :
    /\ modal.tasks[id] = "running"
    /\ LET name == UploadName(id, modal.submits)
           save == [modal.save EXCEPT
                      !.uploadedUrls = Append(@, DownloadUrl(name))]
           tasks == [modal.tasks EXCEPT ![id] = "done"]
           last == \A other \in SeqRange(save.localImages) :
                      tasks[other] = "done"
       IN  /\ blobs' = blobs \cup {"marketplace/" \o name}
           /\ modal' = [modal EXCEPT
                 !.tasks = tasks,
                 !.uploadTasks = @ \ {id},
                 !.save = IF modal.save.pc # "uploading" THEN @
                          ELSE IF last
                            THEN Uploaded(save, now)
                          ELSE save]
    /\ UNCHANGED <<dbProducts, dbReviews, products, reviews, stats, calls,
                   now, dbCards, dbSaved, pushed, op, bulk, rival>>

\* lines 143-148: a transfer failed; its promise rejects and handleSubmit
\* ends in its catch and finally
UploadFails ==
  \E id \in LocalIds :
    /\ modal.tasks[id] = "running"
    /\ LET tasks == [modal.tasks EXCEPT ![id] = "failed"]
           save == SaveAfter(modal.save, tasks)
           settled == save.pc # modal.save.pc
       IN  modal' = [modal EXCEPT
             !.tasks = tasks,
             !.uploadTasks = @ \ {id},
             !.save = save,
             !.error = IF settled THEN FailedToUpload ELSE @,
             !.isLoading = IF settled THEN FALSE ELSE @,
             !.uploading = IF settled THEN FALSE ELSE @]
    /\ UNCHANGED <<dbProducts, dbReviews, products, reviews, stats, calls,
                   now, dbCards, dbSaved, pushed, op, bulk, blobs, rival>>

\* the deletes of lines 394-399 with one of them settled; after the last
\* one onSave is called with the updates of lines 402-415
DeleteSettled(save, url, time) ==
  LET rest == [save EXCEPT !.deleting = @ \ {url}]
  IN  IF rest.deleting = {}
        THEN [rest EXCEPT !.pc = "saving",
                          !.updates = <<Updates(save, save.formData, time)>>]
        ELSE rest

\* lines 192-215: deleteObject of a marked image completed
MarkedImageDeleted ==
  /\ modal.save.pc = "deleting"
  /\ \E url \in modal.save.deleting :
       /\ DeleteTarget(url) # <<>>
       /\ blobs' = blobs \ {DeleteTarget(url)[1]}
       /\ modal' = [modal EXCEPT !.save = DeleteSettled(@, url, now)]
  /\ UNCHANGED <<dbProducts, dbReviews, products, reviews, stats, calls,
                 now, dbCards, dbSaved, pushed, op, bulk, rival>>

\* lines 212-220: the URL matched no pattern, or deleteObject rejected;
\* the error is logged and the delete counts as done
MarkedImageSkipped ==
  /\ modal.save.pc = "deleting"
  /\ \E url \in modal.save.deleting :
       modal' = [modal EXCEPT !.save = DeleteSettled(@, url, now)]
  /\ UNCHANGED <<dbProducts, dbReviews, products, reviews, stats, calls,
                 now, dbCards, dbSaved, pushed, op, bulk, blobs, rival>>

\* lines 418-420 and 426-430: onSave wrote the record (updateProduct,
\* database.ts lines 64-70); handleClose of the render of the submit runs
OnSaveDone ==
  /\ modal.save.pc = "saving"
  /\ modal.save.id \in DOMAIN dbProducts
  /\ dbProducts' = Update(dbProducts, modal.save.id,
                          UpdatedData(dbProducts[modal.save.id],
                                      modal.save.updates[1], now))
  /\ modal' = [Closed([modal EXCEPT !.save.pc = "saved"],
                      modal.save.uploadTasks,
                      modal.save.localImages)
                 EXCEPT !.isLoading = FALSE]
  /\ UNCHANGED <<dbReviews, products, reviews, stats, calls, now, dbCards,
                 dbSaved, pushed, op, bulk, blobs, rival>>

\* lines 421-430: onSave rejected; the error is shown and the modal stays
OnSaveFails ==
  /\ modal.save.pc = "saving"
  /\ modal' = [modal EXCEPT !.save.pc = "failed",
                            !.save.error = StoreUnavailable,
                            !.error = StoreUnavailable,
                            !.isLoading = FALSE, !.uploading = FALSE]
  /\ UNCHANGED <<dbProducts, dbReviews, products, reviews, stats, calls,
                 now, dbCards, dbSaved, pushed, op, bulk, blobs, rival>>

\* lines 436-465 from the backdrop (line 480, never disabled) or a close
\* button: handleClose of the current render
HandleClose ==
  /\ modal.isOpen
  /\ modal' = Closed(modal, modal.uploadTasks, modal.localImages)
  /\ UNCHANGED <<dbProducts, dbReviews, products, reviews, stats, calls,
                 now, dbCards, dbSaved, pushed, op, bulk, blobs, rival>>

\* lines 67-83: the Escape key; the listener calls the handleClose of the
\* render in which the modal opened
HandleEscape ==
  /\ modal.isOpen
  /\ modal' = Closed(modal, modal.escape.uploadTasks,
                     modal.escape.localImages)
  /\ UNCHANGED <<dbProducts, dbReviews, products, reviews, stats, calls,
                 now, dbCards, dbSaved, pushed, op, bulk, blobs, rival>>

NextModal ==
  \/ OpenModal
  \/ HandleFileUpload
  \/ MarkImageForDeletion
  \/ RemoveLocalImage
  \/ HandleSubmit
  \/ UploadDone
  \/ UploadFails
  \/ MarkedImageDeleted
  \/ MarkedImageSkipped
  \/ OnSaveDone
  \/ OnSaveFails
  \/ HandleClose
  \/ HandleEscape

(***************************************************************************)
(* A product edit beside a review deletion: updateProduct called through   *)
(* op while handleDeleteReview of a session runs, their store operations   *)
(* interleaved in every order.                                             *)
(***************************************************************************)
NextRace ==
  \/ UpdateProductCalled
  \/ UpdateProductRead
  \/ UpdateProductWritten
  \/ OpStoreFails
  \/ DeleteReviewClicked("a")
  \/ \E c \in CallIds : DeleteReviewDone(c)
  \/ \E c \in CallIds : UpdateProductGet(c)
  \/ \E c \in CallIds : UpdateProductDone(c)
  \/ \E c \in CallIds : StoreFails(c)

(***************************************************************************)
(* A delete beside an update: deleteProduct or deleteLearningCard called   *)
(* by a second client while updateProduct or updateLearningCard runs       *)
(* through op.  between records whether the remove was applied after the   *)
(* get of the update and before its write.                                 *)
(***************************************************************************)
IdleRival ==
  [name |-> "none", pc |-> "idle", key |-> "", updates |-> {},
   between |-> FALSE, error |-> ""]

RivalInFlight == {"remove", "cleanup.get", "cleanup.update"}

\* the update of op has read the record of the key and not yet written it
BetweenGetAndUpdate(key) ==
  /\ op.name \in {"updateProduct", "updateLearningCard"}
  /\ op.pc = "update"
  /\ op.key = key

\* database.ts lines 73-76: deleteProduct(id) issues the remove
RivalDeleteProductCalled ==
  /\ rival.pc = "idle"
  /\ rival' = [IdleRival EXCEPT !.name = "deleteProduct", !.pc = "remove",
                                !.key = "p1"]
  /\ UNCHANGED <<dbProducts, dbReviews, products, reviews, stats, calls,
                 now, dbCards, dbSaved, pushed, op, bulk, blobs, modal>>

\* database.ts line 76: the remove of the product completed
RivalProductRemoved ==
  /\ rival.name = "deleteProduct" /\ rival.pc = "remove"
  /\ dbProducts' = Remove(dbProducts, rival.key)
  /\ rival' = [rival EXCEPT !.pc = "fulfilled",
                            !.between = BetweenGetAndUpdate(rival.key)]
  /\ UNCHANGED <<dbReviews, products, reviews, stats, calls, now, dbCards,
                 dbSaved, pushed, op, bulk, blobs, modal>>

\* database.ts lines 210-213: deleteLearningCard(uuid) issues the remove
RivalDeleteLearningCardCalled ==
  /\ rival.pc = "idle"
  /\ rival' = [IdleRival EXCEPT !.name = "deleteLearningCard",
                                !.pc = "remove", !.key = "c1"]
  /\ UNCHANGED <<dbProducts, dbReviews, products, reviews, stats, calls,
                 now, dbCards, dbSaved, pushed, op, bulk, blobs, modal>>

\* lines 213-214 and 219-222: the remove of the card completed and
\* cleanupSavedCards issues its get
RivalCardRemoved ==
  /\ rival.name = "deleteLearningCard" /\ rival.pc = "remove"
  /\ dbCards' = Remove(dbCards, rival.key)
  /\ rival' = [rival EXCEPT !.pc = "cleanup.get",
                            !.between = BetweenGetAndUpdate(rival.key)]
  /\ UNCHANGED <<dbProducts, dbReviews, products, reviews, stats, calls,
                 now, dbSaved, pushed, op, bulk, blobs, modal>>

\* cleanupSavedCards lines 222-239: the get completed
RivalCleanupRead ==
  LET updates == CleanupUpdates(dbSaved, rival.key)
  IN  /\ rival.pc = "cleanup.get"
      /\ rival' = IF DOMAIN dbSaved = {} \/ updates = {}
                    THEN [rival EXCEPT !.pc = "fulfilled"]
                    ELSE [rival EXCEPT !.pc = "cleanup.update",
                                       !.updates = updates]
      /\ UNCHANGED <<dbProducts, dbReviews, products, reviews, stats,
                     calls, now, dbCards, dbSaved, pushed, op, bulk, blobs,
                     modal>>

\* cleanupSavedCards line 239: the update completed
RivalCleanupWritten ==
  /\ rival.pc = "cleanup.update"
  /\ dbSaved' = MultiPathUpdate(dbSaved, rival.updates)
  /\ rival' = [rival EXCEPT !.pc = "fulfilled"]
  /\ UNCHANGED <<dbProducts, dbReviews, products, reviews, stats, calls,
                 now, dbCards, pushed, op, bulk, blobs, modal>>

\* the store operation the delete is waiting for fails; the method throws
RivalStoreFails ==
  /\ rival.pc \in RivalInFlight
  /\ rival' = [rival EXCEPT !.pc = "rejected", !.error = StoreUnavailable]
  /\ UNCHANGED <<dbProducts, dbReviews, products, reviews, stats, calls,
                 now, dbCards, dbSaved, pushed, op, bulk, blobs, modal>>

NextRival ==
  \/ UpdateProductCalled
  \/ UpdateProductRead
  \/ UpdateProductWritten
  \/ UpdateLearningCardCalled
  \/ UpdateLearningCardRead
  \/ UpdateLearningCardWritten
  \/ OpStoreFails
  \/ RivalDeleteProductCalled
  \/ RivalProductRemoved
  \/ RivalDeleteLearningCardCalled
  \/ RivalCardRemoved
  \/ RivalCleanupRead
  \/ RivalCleanupWritten
  \/ RivalStoreFails

(***************************************************************************)
(* A deletion and its retry: handleDeleteReview is called once, and, if    *)
(* it failed at the product update, once more for the same review.  The    *)
(* first call is kept in slot 1 and the retry in slot 2.                   *)
(***************************************************************************)
\* the delete button of a review row is clicked
FirstAttempt ==
  /\ calls[1].pc = "idle"
  /\ \E id \in ReviewIds \cup {UnknownId} : HandleDeleteReview(1, "a", id)

\* the delete button of the same row is clicked again after the failure
RetryDeleteReview ==
  /\ calls[1].pc = "rejected"
  /\ calls[1].failedAt \in {"updateProduct.get", "updateProduct.update"}
  /\ calls[2].pc = "idle"
  /\ HandleDeleteReview(2, calls[1].session, calls[1].id)

NextRetry ==
  \/ FirstAttempt
  \/ RetryDeleteReview
  \/ \E c \in CallIds : DeleteReviewDone(c)
  \/ \E c \in CallIds : UpdateProductGet(c)
  \/ \E c \in CallIds : UpdateProductDone(c)
  \/ \E c \in CallIds : StoreFails(c)

(***************************************************************************)
(* Initial states: the store holds the two products and NumReviews         *)
(* reviews, and every session has loaded them as AdminDashboardPage does.  *)
(***************************************************************************)
Ratings == 1..5

ProductRecord(itemId, rating, review_count, createdAt) ==
  [itemId |-> itemId, rating |-> rating, review_count |-> review_count,
   createdAt |-> createdAt, updatedAt |-> createdAt]

ReviewRecord(itemId, rating, createdAt) ==
  [itemId |-> itemId, rating |-> rating, createdAt |-> createdAt]

ReviewRecords(itemIdOf, ratingOf) ==
  [id \in ReviewIds |->
     ReviewRecord(itemIdOf[id], ratingOf[id], IndexIn(ReviewKeyOrder, id))]

CardRecord(title, createdAt) ==
  [title |-> title, imageUrl |-> "img", isSaved |-> FALSE,
   createdAt |-> ToISOString(createdAt)]

\* the stored cards: card i was created at time i
CardRecords ==
  [k \in CardKeys |-> CardRecord("card", IndexIn(CardKeyOrder, k))]

\* user_saved_cards with the given bookmarks, each a flag that is true
SavedCards(bookmarks) == [b \in bookmarks |-> TRUE]

\* the learning hub as stored, no repository call in progress
Repository(cards, saved) ==
  /\ dbCards = cards
  /\ dbSaved = saved
  /\ pushed = 0
  /\ op = IdleOp
  /\ bulk = IdleBulk

\* blob storage holding the given objects, the edit modal in the given
\* state, no second call in progress
EditFlow(stored, m) ==
  /\ blobs = stored
  /\ modal = m
  /\ rival = IdleRival

LearningHub(cards, saved) ==
  /\ Repository(cards, saved)
  /\ EditFlow({}, ClosedModal)

Dashboard(prods, revs) ==
  /\ dbProducts = prods
  /\ dbReviews = revs
  /\ products = [s \in Sessions |-> GetProducts(prods)]
  /\ reviews = [s \in Sessions |-> GetReviews(revs)]
  /\ stats = [s \in Sessions |->
                LoadedStats(GetProducts(prods), GetReviews(revs))]
  /\ calls = [c \in CallIds |-> IdleCall]
  /\ now = 10

Loaded(prods, revs) ==
  /\ Dashboard(prods, revs)
  /\ LearningHub(CardRecords, SavedCards({}))

\* the stored reviews that the lookup of handleDeleteReview attributes to
\* the product with the given key
ReviewsOfProduct(revs, prods, key) ==
  {id \in DOMAIN revs :
     LET owner == FindProduct(prods, revs[id].itemId)
     IN  owner # <<>> /\ owner[1].id = key}

RECURSIVE SumOfRatings(_, _)
SumOfRatings(revs, ids) ==
  IF ids = {} THEN 0
  ELSE LET id == CHOOSE x \in ids : TRUE
       IN  revs[id].rating + SumOfRatings(revs, ids \ {id})

\* num/den rounded to the nearest integer, halves away from zero
RoundHalfAway(num, den) ==
  LET n == (2 * Abs(num) + den) \div (2 * den)
  IN  IF num < 0 THEN 0 - n ELSE n

\* round(mean(r.rating for r in ids), 1) in tenths, 0 for no review
RoundedMean(revs, ids) ==
  IF ids = {} THEN 0
  ELSE RoundHalfAway(10 * SumOfRatings(revs, ids), Cardinality(ids))

\* products whose aggregate fields agree with the stored reviews
WithAggregates(base, revs) ==
  [k \in DOMAIN base |->
     LET mine == ReviewsOfProduct(revs, GetProducts(base), k)
     IN  [base[k] EXCEPT !.review_count = Cardinality(mine),
                         !.rating = RoundedMean(revs, mine)]]

\* which product field each review refers to, per family of initial states
ConsistentItemId(i) ==
  IF i % 4 = 0 THEN "p2" ELSE IF i % 4 = 2 THEN "k1" ELSE "p1"

KeyedItemId(i) ==
  IF i % 3 = 0 THEN "p404" ELSE IF i % 3 = 2 THEN "k1" ELSE "p1"

FixedRating(i) == (i % 5) + 1

\* aggregates consistent with the reviews; p1 is referred to by its key and
\* by its itemId; every combination of ratings of the reviews of p1
InitConsistent ==
  \E ratingOf \in [ReviewIds -> Ratings] :
     LET itemIdOf == [id \in ReviewIds |->
                       ConsistentItemId(IndexIn(ReviewKeyOrder, id))]
         revs == ReviewRecords(itemIdOf, ratingOf)
         base == [k \in ProductKeys |->
                    ProductRecord(IF k = "p1" THEN "k1" ELSE k, 0, 0,
                                  IndexIn(KeyOrder, k))]
     IN  /\ \A id \in ReviewIds :
               itemIdOf[id] = "p2" =>
                 ratingOf[id] = FixedRating(IndexIn(ReviewKeyOrder, id))
         /\ Loaded(WithAggregates(base, revs), revs)

\* any aggregate on p1, consistent or not; all reviews refer to p1
InitNumeric ==
  \E rating \in {40, 43, 47}, review_count \in 0..3, r1 \in Ratings :
     LET revs == ReviewRecords(
                   [id \in ReviewIds |-> "p1"],
                   [id \in ReviewIds |->
                      IF id = "r1" THEN r1
                      ELSE FixedRating(IndexIn(ReviewKeyOrder, id))])
         prods == [k \in ProductKeys |->
                     IF k = "p1"
                       THEN ProductRecord("p1", rating, review_count, 1)
                       ELSE ProductRecord("p2", 0, 0, 2)]
     IN  Loaded(prods, revs)

\* every combination of key conventions and list orders; reviews that refer
\* to p1 by key, by itemId, and to no product
InitKeyed ==
  \E item1 \in {"p1", "k1"}, item2 \in {"p2", "p1"},
     newest \in ProductKeys :
     LET revs == ReviewRecords(
                   [id \in ReviewIds |->
                      KeyedItemId(IndexIn(ReviewKeyOrder, id))],
                   [id \in ReviewIds |->
                      FixedRating(IndexIn(ReviewKeyOrder, id))])
         prods == [k \in ProductKeys |->
                     ProductRecord(IF k = "p1" THEN item1 ELSE item2,
                                   40, 2, IF k = newest THEN 2 ELSE 1)]
     IN  Loaded(prods, revs)

Spec == InitKeyed /\ [][Next]_vars

SpecConsistent == InitConsistent /\ [][Next]_vars

SpecNumeric == InitNumeric /\ [][Next]_vars

\* aggregates consistent with the reviews; every review but each fourth
\* refers to p1; every rating of the first review
InitBulk ==
  \E r1 \in Ratings :
     LET itemIdOf == [id \in ReviewIds |->
                       IF IndexIn(ReviewKeyOrder, id) % 4 = 0
                         THEN "p2" ELSE "p1"]
         ratingOf == [id \in ReviewIds |->
                       IF id = "r1" THEN r1
                       ELSE FixedRating(IndexIn(ReviewKeyOrder, id))]
         revs == ReviewRecords(itemIdOf, ratingOf)
         base == [k \in ProductKeys |->
                    ProductRecord(k, 0, 0, IndexIn(KeyOrder, k))]
     IN  Loaded(WithAggregates(base, revs), revs)

SpecBulk == InitBulk /\ [][NextBulk]_vars

SpecSessions == InitBulk /\ [][NextSessions]_vars

\* two products and the reviews of p1, loaded; no call in progress
InitRepo ==
  \E rating \in {40, 45} :
     LET revs == ReviewRecords(
                   [id \in ReviewIds |-> "p1"],
                   [id \in ReviewIds |->
                      FixedRating(IndexIn(ReviewKeyOrder, id))])
         prods == [k \in ProductKeys |->
                     ProductRecord(k, rating, NumReviews,
                                   IndexIn(KeyOrder, k))]
     IN  Loaded(prods, revs)

SpecRepo == InitRepo /\ [][NextRepo]_vars

\* every set of users bookmarking c1; user i bookmarks a later card j when
\* i + j is even; u1 may hold a bookmark of a card deleted earlier
InitCards ==
  \E savers \in SUBSET Users, stale \in SUBSET {<<"u1", UnknownCardId>>} :
     LET revs == ReviewRecords(
                   [id \in ReviewIds |-> "p1"],
                   [id \in ReviewIds |->
                      FixedRating(IndexIn(ReviewKeyOrder, id))])
         prods == [k \in ProductKeys |->
                     ProductRecord(k, 40, NumReviews, IndexIn(KeyOrder, k))]
         others == {b \in Users \X (CardKeys \ {"c1"}) :
                      (IndexIn(UserOrder, b[1])
                         + IndexIn(CardKeyOrder, b[2])) % 2 = 0}
     IN  /\ Dashboard(prods, revs)
         /\ LearningHub(CardRecords,
                        SavedCards({<<u, "c1">> : u \in savers}
                                     \cup others \cup stale))

SpecCards == InitCards /\ [][NextCards]_vars

\* blob storage holding any of the marketplace objects
BlobPaths == {"marketplace/" \o n : n \in ImageNames}

InitBlob ==
  \E stored \in SUBSET BlobPaths :
     LET revs == ReviewRecords(
                   [id \in ReviewIds |-> "p1"],
                   [id \in ReviewIds |->
                      FixedRating(IndexIn(ReviewKeyOrder, id))])
         prods == [k \in ProductKeys |->
                     ProductRecord(k, 40, NumReviews, IndexIn(KeyOrder, k))]
     IN  /\ Dashboard(prods, revs)
         /\ Repository(CardRecords, SavedCards({}))
         /\ EditFlow(stored, ClosedModal)

SpecBlob == InitBlob /\ [][NextBlob]_vars

SpecService == InitRepo /\ [][NextService]_vars

\* the edited product with the given number of images, their blobs stored
InitModal ==
  \E count \in {4, 5} :
     LET revs == ReviewRecords(
                   [id \in ReviewIds |-> "p1"],
                   [id \in ReviewIds |->
                      FixedRating(IndexIn(ReviewKeyOrder, id))])
         images == [i \in 1..count |-> DownloadUrl(ExistingImageOrder[i])]
         prods == [k \in ProductKeys |->
                     Merge(ProductRecord(k, 40, NumReviews,
                                         IndexIn(KeyOrder, k)),
                           [name |-> "apple", unit |-> "kg",
                            images |-> IF k = EditedProduct THEN images
                                       ELSE <<>>])]
     IN  /\ Dashboard(prods, revs)
         /\ Repository(CardRecords, SavedCards({}))
         /\ EditFlow({"marketplace/" \o ExistingImageOrder[i] :
                        i \in 1..count}, ClosedModal)

SpecModal == InitModal /\ [][NextModal]_vars

SpecRace == InitRepo /\ [][NextRace]_vars

\* the cards of InitCards with their bookmarks, the products of InitRepo
InitRival ==
  \E savers \in SUBSET {"u1", "u2"} :
     LET revs == ReviewRecords(
                   [id \in ReviewIds |-> "p1"],
                   [id \in ReviewIds |->
                      FixedRating(IndexIn(ReviewKeyOrder, id))])
         prods == [k \in ProductKeys |->
                     ProductRecord(k, 40, NumReviews, IndexIn(KeyOrder, k))]
     IN  /\ Dashboard(prods, revs)
         /\ Repository(CardRecords,
                       SavedCards({<<u, "c1">> : u \in savers}))
         /\ EditFlow({}, ClosedModal)

SpecRival == InitRival /\ [][NextRival]_vars

SpecRetry == InitConsistent /\ [][NextRetry]_vars


(***************************************************************************)
(* Properties.                                                             *)
(***************************************************************************)
Settled(c) == calls[c].pc \in {"fulfilled", "rejected"}

FailedAtUpdate(c) ==
  /\ calls[c].pc = "rejected"
  /\ calls[c].failedAt \in {"updateProduct.get", "updateProduct.update"}

\* ids of the reviews in the reviews state of session s
LoadedReviewIds(s) == {reviews[s][i].id : i \in 1..Len(reviews[s])}

\* the reviews in the state of session s that the lookup attributes to the
\* product with the given key
LoadedReviewsOfProduct(s, key) ==
  {i \in 1..Len(reviews[s]) :
     LET owner == FindProduct(products[s], reviews[s][i].itemId)
     IN  owner # <<>> /\ owner[1].id = key}

\* the review of call c refers to no product of the session's state, by
\* neither field
OrphanCall(c) ==
  /\ calls[c].reviewToDelete # <<>>
  /\ \A i \in 1..Len(products[calls[c].session]) :
        /\ products[calls[c].session][i].id # calls[c].reviewToDelete[1].itemId
        /\ products[calls[c].session][i].itemId
             # calls[c].reviewToDelete[1].itemId

\* C1: aggregate invariant.  Starting from aggregates consistent with the
\* reviews, after any sequence of deletions that ran one after another
\* (none in progress, none left half done by a store failure), every
\* product's review_count is the number of its remaining reviews and its
\* rating is their mean rounded to one decimal (0 when none remains).
C1_AggregateInvariant ==
  (NoCallInFlight /\ LoadedReviewIds("a") = DOMAIN dbReviews) =>
    \A k \in DOMAIN dbProducts :
       LET remaining == ReviewsOfProduct(dbReviews, products["a"], k)
       IN  /\ dbProducts[k].review_count = Cardinality(remaining)
           /\ dbProducts[k].rating = RoundedMean(dbReviews, remaining)

\* C2: a successful deletion writes review_count = max(0, old - 1) and
\* rating = 0 when that is 0, otherwise (old rating * old count - deleted
\* rating) / new count rounded to one decimal, halves away from zero.
C2_SingleDeletionWrite ==
  \A c \in CallIds :
     calls[c].pc = "fulfilled" =>
       LET old      == calls[c].product[1]
           deleted  == calls[c].reviewToDelete[1].rating
           newCount == Max(0, old.review_count - 1)
       IN  /\ dbProducts[old.id].review_count = newCount
           /\ dbProducts[old.id].rating =
                IF newCount = 0 THEN 0
                ELSE RoundHalfAway(old.rating * old.review_count
                                     - 10 * deleted, newCount)

\* C3: once every review of a product has been deleted through
\* handleDeleteReview, the product has review_count 0 and rating 0, in the
\* store and in the session's state.
C3_AllDeletedGivesZero ==
  NoCallInFlight =>
    \A k \in DOMAIN dbProducts :
       LoadedReviewsOfProduct("a", k) = {} =>
         /\ dbProducts[k].review_count = 0
         /\ dbProducts[k].rating = 0
         /\ \A i \in 1..Len(products["a"]) :
               products["a"][i].id = k =>
                 /\ products["a"][i].review_count = 0
                 /\ products["a"][i].rating = 0

\* p1 started with reviews and the last of them has just been deleted
C3_Witness ==
  /\ calls[1].pc = "fulfilled"
  /\ calls[1].product[1].id = "p1"
  /\ calls[1].product[1].review_count = 1
  /\ LoadedReviewsOfProduct("a", "p1") = {}
  /\ ReviewsOfProduct(dbReviews, products["a"], "p1") = {}

\* C4: review_count is never negative, in the store and in every session's
\* state, also after deletions against a product whose review_count is 0
\* or lower than its number of reviews.
C4_CountNeverNegative ==
  /\ \A k \in DOMAIN dbProducts : dbProducts[k].review_count >= 0
  /\ \A s \in Sessions : \A i \in 1..Len(products[s]) :
        products[s][i].review_count >= 0

\* a deletion against a product whose review_count was already 0 succeeded
C4_Witness ==
  /\ calls[1].pc = "fulfilled"
  /\ calls[1].product[1].review_count = 0
  /\ dbProducts[calls[1].product[1].id].review_count = 0

\* C5: dual-key resolution.  Whenever some product of the session's state
\* has the review's itemId as its id field or as its itemId field, the
\* deletion finds a product matching on one of the two fields, and a
\* successful deletion has written the new aggregate to that product.
C5_DualKeyResolution ==
  \A c \in CallIds :
     (/\ calls[c].reviewToDelete # <<>>
      /\ \E i \in 1..Len(products[calls[c].session]) :
            \/ products[calls[c].session][i].id
                 = calls[c].reviewToDelete[1].itemId
            \/ products[calls[c].session][i].itemId
                 = calls[c].reviewToDelete[1].itemId)
     => /\ calls[c].product # <<>>
        /\ \/ calls[c].product[1].id = calls[c].reviewToDelete[1].itemId
           \/ calls[c].product[1].itemId = calls[c].reviewToDelete[1].itemId
        /\ calls[c].error # ProductNotFoundForReview
        /\ calls[c].pc = "fulfilled" =>
             /\ dbProducts[calls[c].product[1].id].review_count
                  = calls[c].newReviewCount
             /\ dbProducts[calls[c].product[1].id].rating
                  = calls[c].newRating

\* p1 has itemId k1; r1 (itemId p1, the id field) and r2 (itemId k1, the
\* itemId field) have both been deleted and both decremented p1
C5_Witness ==
  /\ calls[1].pc = "fulfilled"
  /\ calls[1].product[1].id = "p1"
  /\ calls[1].product[1].itemId = "k1"
  /\ dbProducts["p2"].itemId = "p2"
  /\ LoadedReviewIds("a") \cap {"r1", "r2"} = {}
  /\ dbProducts["p1"].review_count = 0

\* C6: lookup order.  When a product of the session's state matches the
\* review's itemId on its itemId field, the product chosen matches on the
\* itemId field, whatever the order of the list.
C6_ItemIdMatchFirst ==
  \A c \in CallIds :
     (/\ calls[c].product # <<>>
      /\ \E i \in 1..Len(products[calls[c].session]) :
            products[calls[c].session][i].itemId
              = calls[c].reviewToDelete[1].itemId)
     => calls[c].product[1].itemId = calls[c].reviewToDelete[1].itemId

\* C7: orphan safety.  A deletion of a review that refers to no product,
\* once it has ended without a store failure, has removed the review
\* record.
C7_OrphanReviewRemoved ==
  \A c \in CallIds :
     (Settled(c) /\ OrphanCall(c) /\ calls[c].error # StoreUnavailable)
     => calls[c].id \notin DOMAIN dbReviews

\* C8: no step of a deletion of an orphan review changes a product record,
\* in the store or in the session's state.
C8_OrphanMutatesNoProduct ==
  [][\A c \in CallIds :
       (calls'[c] # calls[c] /\ OrphanCall(c)')
       => (dbProducts' = dbProducts /\ products' = products)]_vars

\* the deletion of an orphan review has ended
C8_Witness ==
  /\ OrphanCall(1)
  /\ calls[1].reviewToDelete[1].itemId = "p404"
  /\ Settled(1)

\* C9: a step of handleDeleteReview for an id that is not in the session's
\* reviews rejects the call and changes neither the store nor the
\* session's reviews, products and stats.
C9_NotFoundAbort ==
  [][\A c \in CallIds :
       (calls'[c] # calls[c]
        /\ calls'[c].id \notin LoadedReviewIds(calls'[c].session))
       => /\ calls'[c].pc = "rejected"
          /\ calls'[c].error = ReviewNotFound
          /\ dbReviews' = dbReviews
          /\ dbProducts' = dbProducts
          /\ reviews' = reviews
          /\ products' = products
          /\ stats' = stats]_vars

\* a call for an id that is not loaded has ended, after an earlier
\* deletion had removed a review
C9_Witness ==
  /\ calls[1].pc = "rejected"
  /\ calls[1].id \notin LoadedReviewIds("a")
  /\ Len(reviews["a"]) < NumReviews

\* C10 as stated: when the product update fails after the review record
\* was deleted, the review stays deleted and the stored review_count is
\* one less than the number of reviews that still exist for the product.
C10_UnderCount ==
  \A c \in CallIds :
     FailedAtUpdate(c) =>
       /\ calls[c].id \notin DOMAIN dbReviews
       /\ dbProducts[calls[c].product[1].id].review_count
            = Cardinality(ReviewsOfProduct(dbReviews,
                                           products[calls[c].session],
                                           calls[c].product[1].id)) - 1

\* C10 amended: when the product update fails after the review record was
\* deleted, and no other loaded review is missing from the store, the
\* review stays deleted and the stored review_count is one more than the
\* number of reviews that still exist for the product.
C10_OverCount ==
  \A c \in CallIds :
     (/\ FailedAtUpdate(c)
      /\ LoadedReviewIds(calls[c].session) \ {calls[c].id}
           \subseteq DOMAIN dbReviews)
     => /\ calls[c].id \notin DOMAIN dbReviews
        /\ dbProducts[calls[c].product[1].id].review_count
             = Cardinality(ReviewsOfProduct(dbReviews,
                                            products[calls[c].session],
                                            calls[c].product[1].id)) + 1

\* the update of p1 failed after the review record was deleted
C10_Witness ==
  /\ FailedAtUpdate(1)
  /\ calls[1].product[1].id = "p1"
  /\ calls[1].id \notin DOMAIN dbReviews
  /\ LoadedReviewIds("a") \ {calls[1].id} \subseteq DOMAIN dbReviews

\* the bulk deletion of call slots 1..bulk.count ended with every call
\* fulfilled, and all its reviews belonged to the product with key k
BulkDeletedFrom(k) ==
  /\ bulk.pc = "succeeded"
  /\ \A c \in BulkCalls : calls[c].product[1].id = k

\* C11: a bulk deletion works like the single deletions run one after the
\* other, each on the product state the previous one left: after k reviews
\* of one product were bulk-deleted, the stored review_count is the one
\* before the bulk deletion minus k, floored at 0.
C11_BulkDecrementsByK ==
  \A k \in DOMAIN dbProducts :
     BulkDeletedFrom(k) =>
       dbProducts[k].review_count
         = Max(0, calls[1].product[1].review_count - bulk.count)

\* calls 1 and 2 deleted different reviews of the same product and each
\* had found that product with the same review_count
SameStartDifferentReviews ==
  /\ calls[1].pc = "fulfilled"
  /\ calls[2].pc = "fulfilled"
  /\ calls[1].session # calls[2].session
  /\ calls[1].id # calls[2].id
  /\ calls[1].product[1].id = calls[2].product[1].id
  /\ calls[1].product[1].review_count = calls[2].product[1].review_count

\* C12: lost update.  When two sessions that hold the same review_count of
\* a product have each deleted a different review of it and both deletions
\* succeeded, the stored review_count is only one below that starting
\* value: each wrote the value it computed from its own state.
C12_LostUpdate ==
  SameStartDifferentReviews =>
    dbProducts[calls[1].product[1].id].review_count
      = Max(0, calls[1].product[1].review_count - 1)

\* both sessions deleted a review of p1 at the same time (each had its
\* review record removed before the other's product update completed), two
\* reviews are gone and the stored review_count went from 3 to 2
C12_Witness ==
  /\ SameStartDifferentReviews
  /\ calls[1].product[1].id = "p1"
  /\ calls[1].product[1].review_count = 3
  /\ calls[1].data[1].updatedAt = calls[2].data[1].updatedAt
  /\ {calls[1].id, calls[2].id} \cap DOMAIN dbReviews = {}
  /\ dbProducts["p1"].review_count = 2

\* the review ids that the catch of handleBulkDelete names to the admin:
\* the alert is a fixed text and the error logged is that of the first
\* rejected call
IdsTold(b) == {id \in b.selected : id = b.alert \/ id = b.logged}

\* C13: partial batch failure.  When a bulk deletion failed and all its
\* calls have ended, the reviews of the calls that succeeded stay deleted
\* and what the admin is told names the ids of the reviews whose deletion
\* failed.
C13_PartialBatchFailure ==
  (bulk.pc = "failed" /\ \A c \in BulkCalls : Settled(c)) =>
    /\ \A c \in BulkCalls :
          calls[c].pc = "fulfilled" =>
            /\ calls[c].id \notin DOMAIN dbReviews
            /\ calls[c].id \notin LoadedReviewIds("a")
    /\ IdsTold(bulk) = {calls[c].id : c \in {d \in BulkCalls :
                                               calls[d].pc = "rejected"}}

\* C14: the step that completes updateProduct on an existing product
\* stores the record the store held with the caller's fields merged over
\* it: every field the caller did not supply keeps its value, updatedAt is
\* the time of the update whatever the caller supplied, and no other
\* product changes.
C14_UpdateMergesAndStamps ==
  [][(op.name = "updateProduct" /\ op.pc = "update"
      /\ op'.pc = "fulfilled")
     => LET prior  == dbProducts[op.key]
            data   == op.data[1]
            stored == dbProducts'[op.key]
        IN  /\ DOMAIN stored
                 = (DOMAIN prior) \cup (DOMAIN data) \cup {"updatedAt"}
            /\ \A f \in DOMAIN stored :
                  stored[f] = IF f = "updatedAt" THEN now
                              ELSE IF f \in DOMAIN data THEN data[f]
                              ELSE prior[f]
            /\ \A k \in DOMAIN dbProducts' :
                  k # op.key =>
                    k \in DOMAIN dbProducts /\ dbProducts'[k] = dbProducts[k]
    ]_vars

\* updateProduct on p1 with a caller's updatedAt of 5 has completed: the
\* stored updatedAt is the later time of the update, the rating is the
\* caller's and itemId and createdAt are the old ones
C14_Witness ==
  /\ op.name = "updateProduct" /\ op.pc = "fulfilled"
  /\ op.key = "p1"
  /\ op.data[1] = [rating |-> 45, review_count |-> 7, updatedAt |-> 5]
  /\ dbProducts["p1"].updatedAt = op.time
  /\ dbProducts["p1"].updatedAt > 5
  /\ dbProducts["p1"].rating = 45
  /\ dbProducts["p1"].itemId = "p1"
  /\ dbProducts["p1"].createdAt = 1

\* the store holds no record under key for the repository of method name
NoRecordAt(name, key, prods, revs, cards) ==
  IF name = "updateProduct" THEN key \notin DOMAIN prods
  ELSE IF name = "updateReview" THEN key \notin DOMAIN revs
  ELSE key \notin DOMAIN cards

\* C15: a step that ends an update of the Product, Review or LearningCard
\* repository for a key that holds no record ends it as a failure, and the
\* key holds no record afterwards.
C15_UpdateOfAbsentFails ==
  [][(/\ op.name \in {"updateProduct", "updateReview",
                      "updateLearningCard"}
      /\ op.pc \in OpInFlight
      /\ op'.pc \in {"fulfilled", "rejected"}
      /\ NoRecordAt(op.name, op.key, dbProducts, dbReviews, dbCards))
     => /\ op'.pc = "rejected"
        /\ NoRecordAt(op.name, op.key, dbProducts', dbReviews', dbCards')
    ]_vars

\* C16: createProduct stores under the key push generated, which held no
\* record, a record whose id and itemId are that key, whose createdAt and
\* updatedAt are equal, and whose rating and review_count are 0 when the
\* caller supplied none; it returns the key.
C16_CreateProduct ==
  /\ (op.name = "createProduct" /\ op.pc = "set")
       => op.key \notin DOMAIN dbProducts
  /\ (op.name = "createProduct" /\ op.pc = "fulfilled")
       => LET stored == dbProducts[op.key]
              data   == op.data[1]
          IN  /\ op.result = <<op.key>>
              /\ stored.id = op.key
              /\ stored.itemId = op.key
              /\ stored.createdAt = stored.updatedAt
              /\ "rating" \notin DOMAIN data => stored.rating = 0
              /\ "review_count" \notin DOMAIN data
                   => stored.review_count = 0

\* C17: getReviews returns one entry per stored review, ordered by
\* createdAt descending with an absent createdAt counted as 0, and the
\* entry of every stored record has the record's key as id and reviewId.
C17_ReviewList ==
  (op.name = "getReviews" /\ op.pc = "fulfilled") =>
    LET list == op.result[1]
    IN  /\ Len(list) = Cardinality(DOMAIN dbReviews)
        /\ \A i, j \in 1..Len(list) :
              i < j => CreatedAtOrZero(list[i]) >= CreatedAtOrZero(list[j])
        /\ \A k \in DOMAIN dbReviews :
              \E i \in 1..Len(list) :
                 /\ list[i].id = k
                 /\ list[i].reviewId = k
                 /\ \A f \in DOMAIN dbReviews[k] :
                       f \notin {"id", "reviewId"}
                         => list[i][f] = dbReviews[k][f]

\* the users with a bookmark of the card in user_saved_cards
SaversOf(saved, uuid) == {b[1] : b \in {x \in DOMAIN saved : x[2] = uuid}}

\* C18: bookmark fan-out.  Once deleteLearningCard has completed for a
\* card bookmarked under N users, the card record is gone, the N entries
\* user_saved_cards/{userId}/{uuid} are gone and nothing else has changed:
\* every bookmark of another card is as it was, and so is every other
\* card.
C18_BookmarkFanOut ==
  (op.name = "deleteLearningCard" /\ op.pc = "fulfilled") =>
    LET prior == op.before[1]
        mine  == {b \in DOMAIN prior.saved : b[2] = op.key}
    IN  /\ op.key \notin DOMAIN dbCards
        /\ DOMAIN dbCards = (DOMAIN prior.cards) \ {op.key}
        /\ \A k \in DOMAIN dbCards : dbCards[k] = prior.cards[k]
        /\ DOMAIN dbSaved = (DOMAIN prior.saved) \ mine
        /\ Cardinality(DOMAIN prior.saved) - Cardinality(DOMAIN dbSaved)
             = Cardinality(SaversOf(prior.saved, op.key))
        /\ \A b \in DOMAIN dbSaved : dbSaved[b] = prior.saved[b]

\* c1 was bookmarked under two users who also bookmarked another card; it
\* has been deleted, its two bookmarks are gone and the others remain
C18_Witness ==
  /\ op.name = "deleteLearningCard" /\ op.pc = "fulfilled"
  /\ op.key = "c1"
  /\ Cardinality(SaversOf(op.before[1].saved, "c1")) = 2
  /\ SaversOf(dbSaved, "c1") = {}
  /\ \E u \in SaversOf(op.before[1].saved, "c1") :
        \E c \in CardKeys \ {"c1"} : <<u, c>> \in DOMAIN dbSaved

\* C19: the cleanup of the bookmarks of a deleted card is at most one
\* write, and none when no user bookmarked the card; in every state of the
\* deletion the bookmarks of the card are either all those that existed
\* when it was called or none.
C19_CleanupIsOneWrite ==
  (op.name = "deleteLearningCard") =>
    LET savers == SaversOf(op.before[1].saved, op.key)
    IN  /\ SaversOf(dbSaved, op.key) \in {savers, {}}
        /\ op.writes <= 1
        /\ savers = {} => op.writes = 0
        /\ op.pc = "fulfilled" => SaversOf(dbSaved, op.key) = {}
        /\ (op.pc = "fulfilled" /\ savers # {}) => op.writes = 1

\* the deletion of a card that every user had bookmarked has completed
\* with one write, and no bookmark of the card is left
C19_Witness ==
  /\ op.name = "deleteLearningCard" /\ op.pc = "fulfilled"
  /\ SaversOf(op.before[1].saved, op.key) = Users
  /\ SaversOf(dbSaved, op.key) = {}
  /\ op.writes = 1

\* C20: createLearningCard stores the card under the key push generated,
\* which held no record, with uuid equal to that key and createdAt the
\* ISO-8601 string of the time of creation whatever uuid and createdAt the
\* caller passed, every other field as the caller passed it; the card it
\* returns is the record stored.
C20_CreateLearningCard ==
  /\ (op.name = "createLearningCard" /\ op.pc = "set")
       => op.key \notin DOMAIN dbCards
  /\ (op.name = "createLearningCard" /\ op.pc = "fulfilled")
       => LET stored   == dbCards[op.key]
              cardData == op.data[1]
          IN  /\ op.key \notin DOMAIN op.before[1].cards
              /\ op.result = <<stored>>
              /\ stored.uuid = op.key
              /\ stored.createdAt = ToISOString(op.time)
              /\ Len(stored.createdAt) = 24
              /\ DOMAIN stored = (DOMAIN cardData) \cup {"uuid", "createdAt"}
              /\ \A f \in DOMAIN cardData :
                    f \notin {"uuid", "createdAt"} => stored[f] = cardData[f]

\* a card passed with the uuid of an existing card and a createdAt of the
\* caller's own was created: it is stored under the new key with that key
\* as uuid and the repository's createdAt, and c1 is as it was
C20_Witness ==
  /\ op.name = "createLearningCard" /\ op.pc = "fulfilled"
  /\ "uuid" \in DOMAIN op.data[1]
  /\ op.data[1].uuid = "c1"
  /\ op.key # "c1"
  /\ dbCards[op.key].uuid = op.key
  /\ dbCards[op.key].createdAt # op.data[1].createdAt
  /\ op.result[1] = dbCards[op.key]
  /\ "c1" \in DOMAIN dbCards /\ dbCards["c1"] = op.before[1].cards["c1"]

\* C21: a delete(url) of a URL without an /o/<path> segment issues no
\* storage delete and does not reject
C21_MalformedUrlIsSkipped ==
  (op.name \in {"deleteImage", "deleteImageFromFirebase"}
     /\ ObjectPath(op.data[1]) = <<>>)
    => (op.writes = 0 /\ op.pc # "rejected")

\* C22: a list, getById or delete during which the store failed is rejected
\* towards its caller; it does not return a normal value
C22_StoreFailurePropagates ==
  (op.name \in {"getProducts", "getProductById", "getLearningCardById",
                 "deleteProduct", "AdminDashboardPage"}
     /\ op.failedAt # "")
    => op.pc = "rejected"

\* the URLs of the transfers that completed
CompletedUploads ==
  {DownloadUrl(UploadName(id, s)) :
     id \in {i \in LocalIds : modal.tasks[i] = "done"}, s \in 1..MaxSubmits}

\* C23: removing a local image revokes its preview and cancels its
\* transfer; closing the modal while transfers are in flight cancels every
\* one of them and revokes the previews of the local images; the stored
\* images list never holds a URL other than those of the product and of
\* completed transfers
C23_CancellationReleasesUploads ==
  [][/\ (modal.isOpen /\ ~modal'.isOpen) =>
          \A id \in LocalIds :
             modal.tasks[id] = "running" =>
               (modal'.tasks[id] = "cancelled" /\ id \in modal'.revoked)
     /\ \A id \in SeqRange(modal.localImages) :
          (modal.isOpen /\ modal'.isOpen
             /\ id \notin SeqRange(modal'.localImages)) =>
            (id \in modal'.revoked /\ modal'.tasks[id] # "running")
     /\ \A key \in DOMAIN dbProducts' :
          "images" \in DOMAIN dbProducts'[key] =>
            SeqRange(dbProducts'[key].images)
              \subseteq ({DownloadUrl(n) : n \in SeqRange(ExistingImageOrder)}
                           \cup CompletedUploads')]_vars

\* C26: the images list of the edited product, which starts with at most 5
\* URLs, holds at most 5 URLs after every save
C26_AtMostFiveImages ==
  \A key \in DOMAIN dbProducts :
     "images" \in DOMAIN dbProducts[key] =>
       Len(dbProducts[key].images) <= 5

\* C30: once handleSubmit has ended, in success or in failure, every URL of
\* the stored images list of the product still has its blob
C30_StoredImagesHaveBlobs ==
  modal.save.pc \in {"saved", "failed"} =>
    \A url \in SeqRange(dbProducts[modal.save.id].images) :
       ObjectPath(url) # <<>> /\ ObjectPath(url)[1] \in blobs

\* C24: the product write of a review deletion is issued and applied only
\* after the review record is removed; a deletion that fails at the review
\* delete changes neither the store's products nor the session's state;
\* the session's state changes only in the step that completes the product
\* write, after the review record is gone
C24_DeletionStepOrder ==
  [][/\ \A c \in CallIds :
          calls'[c].pc \in {"updateProduct.get", "updateProduct.update"}
            => calls'[c].id \notin DOMAIN dbReviews'
     /\ dbProducts' # dbProducts =>
          \E c \in CallIds :
             /\ calls[c].pc = "updateProduct.update"
             /\ calls[c].id \notin DOMAIN dbReviews
     /\ \A c \in CallIds :
          (calls'[c].failedAt = "deleteReview" /\ calls'[c] # calls[c])
            => /\ calls'[c].pc = "rejected"
               /\ UNCHANGED <<dbProducts, dbReviews, products, reviews,
                              stats>>
     /\ (products' # products \/ reviews' # reviews \/ stats' # stats) =>
          \E c \in CallIds :
             /\ calls[c].pc = "updateProduct.update"
             /\ calls'[c].pc = "fulfilled"
             /\ calls[c].id \notin DOMAIN dbReviews'
             /\ dbProducts'[calls[c].product[1].id]
                  = calls[c].updatedData[1]]_vars

\* a deletion went through both store writes and then reached the session
C24_Witness ==
  /\ calls[1].pc = "fulfilled"
  /\ calls[1].id \notin DOMAIN dbReviews
  /\ calls[1].id \notin LoadedReviewIds(calls[1].session)
  /\ dbProducts[calls[1].product[1].id] = calls[1].updatedData[1]
  /\ stats[calls[1].session].totalReviews < NumReviews

\* C25: starting from products whose rating is the rounded mean of their
\* reviews, every rating stays within 0..5 (0..50 tenths), in the store and
\* in the session's state, whatever reviews are deleted one after another
C25_RatingWithinRange ==
  /\ \A k \in DOMAIN dbProducts :
        dbProducts[k].rating >= 0 /\ dbProducts[k].rating <= 50
  /\ \A s \in Sessions : \A i \in 1..Len(products[s]) :
        products[s][i].rating >= 0 /\ products[s][i].rating <= 50

\* C27: the write of updateProduct leaves every field that is neither
\* listed in data nor updatedAt at the value the record holds when the
\* write is applied, also when another writer changed it after the read
C27_UpdateKeepsUnlistedFields ==
  [][(op.name = "updateProduct" /\ op.pc = "update"
        /\ op'.pc = "fulfilled" /\ op.key \in DOMAIN dbProducts)
       => \A f \in DOMAIN dbProducts[op.key]
                    \ (DOMAIN op.data[1] \cup {"updatedAt"}) :
             dbProducts'[op.key][f] = dbProducts[op.key][f]]_vars

\* C28: when the record is removed between the get and the write of an
\* update of it, no record exists at the key once the update and the
\* delete have both ended
C28_UpdateNeverCreates ==
  (/\ rival.between
   /\ rival.pc \in {"fulfilled", "rejected"}
   /\ op.key = rival.key
   /\ op.pc \in {"fulfilled", "rejected"})
    => /\ rival.key \notin DOMAIN dbProducts
       /\ rival.key \notin DOMAIN dbCards

\* C29: after a deletion that failed at the product update the review
\* record is gone and the session's reviews, products and stats are as
\* loaded (session b never acts and holds the loaded state); the retry for
\* the same id is not refused, and once it is fulfilled the product holds,
\* in the store and in the session, the review_count and rating of one
\* successful deletion
C29_RetryIsIdempotent ==
  FailedAtUpdate(1) =>
    LET before == calls[1].product[1]
        key == before.id
        count == NewReviewCount(before.review_count)
        rating == NewRating(before.rating, before.review_count,
                            calls[1].reviewToDelete[1].rating)
    IN  /\ calls[1].id \notin DOMAIN dbReviews
        /\ calls[2].pc # "fulfilled" =>
              /\ products["a"] = products["b"]
              /\ reviews["a"] = reviews["b"]
              /\ stats["a"] = stats["b"]
              /\ dbProducts[key].review_count = before.review_count
              /\ dbProducts[key].rating = before.rating
        /\ calls[2].pc = "rejected" => calls[2].error = StoreUnavailable
        /\ calls[2].pc = "fulfilled" =>
              /\ dbProducts[key].review_count = count
              /\ dbProducts[key].rating = rating
              /\ calls[1].id \notin LoadedReviewIds("a")
              /\ Len(reviews["a"]) = Len(reviews["b"]) - 1
              /\ \A i \in 1..Len(products["a"]) :
                    products["a"][i].id = key =>
                      /\ products["a"][i].review_count = count
                      /\ products["a"][i].rating = rating

\* the first deletion failed at the product update and its retry went
\* through, on a product that had more than one review
C29_Witness ==
  /\ FailedAtUpdate(1)
  /\ calls[2].pc = "fulfilled"
  /\ calls[2].id = calls[1].id
  /\ calls[1].product[1].review_count >= 2
  /\ dbProducts[calls[1].product[1].id].review_count
       = calls[1].product[1].review_count - 1

====
